---- MODULE Spec2Model ----
(***************************************************************************)
(* Model of the lazy block compiler and the threaded interpreter of        *)
(* src/vm/interp.cpp: the code heap, the block version registry, the value *)
(* stack, compile(), the branch/call/return handlers of execCode() and the *)
(* call gateway callFun().                                                 *)
(*                                                                         *)
(* Pointers are integers.  Value* pointers count stack slots, uint8_t*     *)
(* pointers count bytes.  The build modelled is the one the tests run:     *)
(* assert() is enabled, so a failed assertion ends the process.            *)
(***************************************************************************)
EXTENDS Integers, Sequences, FiniteSets, TLC

\* ------------------------------------------------------------------ bounds
\* Sizes of the two arenas (1 << 20 bytes and 1 << 16 slots in the source).
CODE_HEAP_INIT_SIZE == 420
STACK_INIT_SIZE == 26
\* Number of callFun calls the embedding program makes.
MaxCalls == 2

\* ------------------------------------------------------------- addresses
nullptr == 0
\* Address new Value[STACK_INIT_SIZE] returns (in slots).
stackLimit == 100
stackBase == stackLimit + STACK_INIT_SIZE
\* Address new uint8_t[CODE_HEAP_INIT_SIZE] returns (in bytes).
codeHeap == 1000
codeHeapLimit == codeHeap + CODE_HEAP_INIT_SIZE
\* Where new BlockVersion(...) allocates: below or above the code heap.
LowHeap == 500
HighHeap == 5000

StackAddrs == stackLimit .. (stackBase - 1)

\* ---------------------------------------------------------------- values
\* Value: a tag and a 64-bit word.
Val(t, x) == [tag |-> t, w |-> x]
int32(n) == Val("INT32", n)
ValueTRUE == Val("BOOL", 1)
ValueFALSE == Val("BOOL", 0)
\* Value(): the default-constructed cell (an unused stack slot).
ValueDefault == ValueFALSE
RawPtr(p) == Val("RAWPTR", p)
ObjVal(o) == Val("OBJECT", o)
HostVal(h) == Val("HOSTFN", h)
boolVal(b) == IF b THEN ValueTRUE ELSE ValueFALSE
ValueUNDEF == Val("UNDEF", 0)
Float32Val(x) == Val("FLOAT32", x)
\* Strings and arrays are references: the word names the heap object.
StrVal(s) == Val("STRING", s)
ArrVal(a) == Val("ARRAY", a)
\* The values of a byte.
Bytes == 0 .. 255

\* (uint16_t) cast of an int32 immediate.
U16(n) == n % 65536

\* sizeof(T) of the four kinds of cell writeCode<T> emits.
SizeOf(k) ==
    CASE k = "op" -> 2
      [] k = "u16" -> 2
      [] k = "ptr" -> 8
      [] k = "val" -> 16

\* One emitted cell of the code heap, keyed by its first byte.
OpCell(o) == [k |-> "op", op |-> o, n |-> 0, val |-> ValueDefault]
U16Cell(x) == [k |-> "u16", op |-> "", n |-> x, val |-> ValueDefault]
PtrCell(p) == [k |-> "ptr", op |-> "", n |-> p, val |-> ValueDefault]
ValCell(v) == [k |-> "val", op |-> "", n |-> 0, val |-> v]

\* ----------------------------------------------------------------- image
\* Function objects.
funId ==
    [fRet |-> 1, fLoop |-> 2, fFact |-> 3, fHost |-> 4,
     fIf |-> 5, fInf |-> 6, fUnbal |-> 7, fBadArgs |-> 8,
     fBadCallee |-> 9, fEmpty |-> 10, fUnknown |-> 11, fFill |-> 12,
     fSub |-> 13, fCallSub |-> 14, fAgain |-> 15, fHostAll |-> 16,
     fRe |-> 17, fUnder2 |-> 18, fUnder5 |-> 19, fCallArg |-> 20,
     fBadCallee5 |-> 21, fJmpEmpty |-> 22, fBrEmpty |-> 23, fCallEmpty |-> 24,
     fRetEmpty |-> 25, fChar |-> 26, fTwoChars |-> 27,
     fCode |-> 28, fGetElem |-> 29, fSetElem |-> 30, fGetField |-> 31,
     fSetGet |-> 32, fBig |-> 33, fBigExact |-> 34, fTwice |-> 35,
     fManyLocals |-> 36, fCallMany |-> 37]
\* Host functions.
hApply == 1
hConst == 2
hId == 3
hSub == 4
hPack == 5

\* Block objects.
blockId ==
    [bRet |-> 101, bLoopE |-> 102, bLoopH |-> 103,
     bLoopB |-> 104, bLoopX |-> 105, bFactE |-> 106,
     bFactB |-> 107, bFactR |-> 108, bFactC |-> 109,
     bHostE |-> 110, bHostC |-> 111, bIfE |-> 112,
     bIfT |-> 113, bIfF |-> 114, bInfE |-> 115,
     bInfC |-> 116, bUnbal |-> 117, bBadArgs |-> 118,
     bBadArgsC |-> 119, bBadCallee |-> 120, bEmpty |-> 121,
     bUnkE |-> 122, bUnkM |-> 123, bUnkX |-> 124,
     bFill |-> 125, bBadCalleeC |-> 126, bSub |-> 127,
     bCallSub |-> 128, bCallSubC |-> 129, bAgainE |-> 130,
     bAgainD |-> 131, bAgainX |-> 132, bHostAll0 |-> 133,
     bHostAll1 |-> 134, bHostAll2 |-> 135, bHostAll3 |-> 136,
     bHostAllX |-> 137, bReE |-> 138, bReR |-> 139,
     bReB |-> 140, bReC |-> 141, bUnder2 |-> 142,
     bUnder5 |-> 143, bUnderC |-> 144, bUnder5C |-> 145,
     bCallArg |-> 146, bCallArgC |-> 147, bBadCallee5 |-> 148,
     bBadCallee5C |-> 149, bJmpE |-> 150, bJmpEmpty |-> 151,
     bBrE |-> 152, bBrEmpty |-> 153, bBrX |-> 154,
     bCallE |-> 155, bCallEC |-> 156, bRetE |-> 157,
     bRetEmpty |-> 158, bChar |-> 159, bTwoChars |-> 160,
     bCode |-> 161, bGetElem |-> 162, bSetElem |-> 163,
     bGetField |-> 164, bSetGet |-> 165, bBig |-> 166,
     bBigExact |-> 167, bTwice |-> 168, bManyLocals |-> 169,
     bCallMany |-> 170, bCallManyC |-> 171]
\* The strings of the image, and their bytes.
sABA == 301
sZ == 302
\* The field names "x", "y" and "1x".
sX == 303
sY == 304
s1X == 305
ImageStr ==
    (sABA :> <<97, 98, 97>>) @@ (sZ :> <<0, 255, 0, 255>>) @@
    (sX :> <<120>>) @@ (sY :> <<121>>) @@ (s1X :> <<49, 120>>)
\* The array of the image, [5, 6], and its data object, { x: 1 }.
aTwo == 401
oX == 451
\* Strings allocated at run time follow strBase.
strBase == 600

I0(o) == [op |-> o]
IPush(v) == [op |-> "push", val |-> v]
IIdx(o, i) == [op |-> o, idx |-> i]
IJump(b) == [op |-> "jump", to |-> b]
IIf(t, e) == [op |-> "if_true", then |-> t, else |-> e]
ICall(n, b) == [op |-> "call", num_args |-> n, ret_to |-> b]
Fun(e, p, l) == [entry |-> e, num_params |-> p, num_locals |-> l]
Block(is) == [instrs |-> is]
\* n times push 0, and n times push 0; pop.
Pushes(n) == [i \in 1 .. n |-> IPush(int32(0))]
PushPops(n) ==
    [i \in 1 .. (2 * n) |-> IF i % 2 = 1 THEN IPush(int32(0)) ELSE I0("pop")]
\* More locals than the stack has slots.
ManyLocals == STACK_INIT_SIZE + 6

\* The object graph of the program image (the parser's output).
Object(o) ==
    CASE o = funId.fRet -> Fun(blockId.bRet, 0, 0)
      [] o = blockId.bRet -> Block(<<IPush(int32(777)), I0("ret")>>)
      [] o = funId.fLoop -> Fun(blockId.bLoopE, 1, 1)
      [] o = blockId.bLoopE -> Block(<<IJump(blockId.bLoopH)>>)
      [] o = blockId.bLoopH -> Block(<<IIdx("get_local", 0), IPush(int32(0)),
                               I0("gt_i32"), IIf(blockId.bLoopB, blockId.bLoopX)>>)
      [] o = blockId.bLoopB -> Block(<<IIdx("get_local", 0), IPush(int32(1)),
                               I0("sub_i32"), IIdx("set_local", 0),
                               IJump(blockId.bLoopH)>>)
      [] o = blockId.bLoopX -> Block(<<IIdx("get_local", 0), I0("ret")>>)
      [] o = funId.fFact -> Fun(blockId.bFactE, 1, 1)
      [] o = blockId.bFactE -> Block(<<IIdx("get_local", 0), IPush(int32(1)),
                               I0("le_i32"), IIf(blockId.bFactB, blockId.bFactR)>>)
      [] o = blockId.bFactB -> Block(<<IPush(int32(1)), I0("ret")>>)
      [] o = blockId.bFactR -> Block(<<IIdx("get_local", 0), IIdx("get_local", 0),
                               IPush(int32(1)), I0("sub_i32"),
                               IPush(ObjVal(funId.fFact)), ICall(1, blockId.bFactC)>>)
      [] o = blockId.bFactC -> Block(<<I0("mul_i32"), I0("ret")>>)
      [] o = funId.fHost -> Fun(blockId.bHostE, 1, 2)
      [] o = blockId.bHostE -> Block(<<IIdx("get_local", 0), IPush(HostVal(hApply)),
                               ICall(1, blockId.bHostC)>>)
      [] o = blockId.bHostC -> Block(<<IIdx("dup", 0), I0("swap"), I0("pop"),
                               I0("ret")>>)
      [] o = funId.fIf -> Fun(blockId.bIfE, 1, 1)
      [] o = blockId.bIfE -> Block(<<IIdx("get_local", 0), IIf(blockId.bIfT, blockId.bIfF)>>)
      [] o = blockId.bIfT -> Block(<<IPush(int32(1)), I0("ret")>>)
      [] o = blockId.bIfF -> Block(<<IPush(int32(2)), I0("ret")>>)
      [] o = funId.fInf -> Fun(blockId.bInfE, 0, 0)
      [] o = blockId.bInfE -> Block(<<IPush(ObjVal(funId.fInf)), ICall(0, blockId.bInfC)>>)
      [] o = blockId.bInfC -> Block(<<I0("ret")>>)
      [] o = funId.fUnbal -> Fun(blockId.bUnbal, 0, 0)
      [] o = blockId.bUnbal -> Block(<<IIdx("dup", 0), IPush(int32(7)), I0("ret")>>)
      [] o = funId.fBadArgs -> Fun(blockId.bBadArgs, 0, 0)
      [] o = blockId.bBadArgs -> Block(<<IPush(ObjVal(funId.fFact)), ICall(0, blockId.bBadArgsC)>>)
      [] o = blockId.bBadArgsC -> Block(<<I0("ret")>>)
      [] o = funId.fBadCallee -> Fun(blockId.bBadCallee, 0, 0)
      [] o = blockId.bBadCallee -> Block(<<IPush(int32(3)), ICall(0, blockId.bBadCalleeC)>>)
      [] o = blockId.bBadCalleeC -> Block(<<I0("ret")>>)
      [] o = funId.fEmpty -> Fun(blockId.bEmpty, 0, 0)
      [] o = blockId.bEmpty -> Block(<<>>)
      [] o = funId.fUnknown -> Fun(blockId.bUnkE, 0, 0)
      [] o = blockId.bUnkE -> Block(<<IJump(blockId.bUnkM)>>)
      [] o = blockId.bUnkM -> Block(<<IJump(blockId.bUnkX)>>)
      [] o = blockId.bUnkX -> Block(<<IPush(int32(1)), I0("bogus")>>)
      [] o = funId.fFill -> Fun(blockId.bFill, 0, 0)
      [] o = blockId.bFill -> Block(<<IPush(int32(1)), IJump(blockId.bFill)>>)
      [] o = funId.fSub -> Fun(blockId.bSub, 2, 3)
      [] o = blockId.bSub -> Block(<<IIdx("get_local", 0), IIdx("get_local", 1),
                             I0("sub_i32"), I0("ret")>>)
      [] o = funId.fCallSub -> Fun(blockId.bCallSub, 0, 0)
      [] o = blockId.bCallSub -> Block(<<IPush(int32(5)), IPush(int32(3)),
                                 IPush(ObjVal(funId.fSub)), ICall(2, blockId.bCallSubC)>>)
      [] o = blockId.bCallSubC -> Block(<<I0("ret")>>)
      [] o = funId.fAgain -> Fun(blockId.bAgainE, 1, 1)
      [] o = blockId.bAgainE -> Block(<<IIdx("get_local", 0), IIf(blockId.bAgainD, blockId.bAgainX)>>)
      [] o = blockId.bAgainD -> Block(<<IPush(ValueFALSE), IIdx("set_local", 0),
                                IJump(blockId.bAgainE)>>)
      [] o = blockId.bAgainX -> Block(<<IPush(int32(9)), I0("ret")>>)
      [] o = funId.fHostAll -> Fun(blockId.bHostAll0, 0, 0)
      [] o = blockId.bHostAll0 -> Block(<<IPush(HostVal(hConst)), ICall(0, blockId.bHostAll1)>>)
      [] o = blockId.bHostAll1 -> Block(<<IPush(HostVal(hId)), ICall(1, blockId.bHostAll2)>>)
      [] o = blockId.bHostAll2 -> Block(<<IPush(int32(2)), IPush(HostVal(hSub)),
                                  ICall(2, blockId.bHostAll3)>>)
      [] o = blockId.bHostAll3 -> Block(<<IPush(int32(7)), IPush(int32(3)),
                                  IPush(HostVal(hPack)), ICall(3, blockId.bHostAllX)>>)
      [] o = blockId.bHostAllX -> Block(<<I0("ret")>>)
      [] o = funId.fRe -> Fun(blockId.bReE, 1, 1)
      [] o = blockId.bReE -> Block(<<IIdx("get_local", 0), IPush(int32(0)),
                             I0("gt_i32"), IIf(blockId.bReR, blockId.bReB)>>)
      [] o = blockId.bReR -> Block(<<IPush(ObjVal(funId.fRe)), IIdx("get_local", 0),
                             IPush(int32(1)), I0("sub_i32"),
                             IPush(HostVal(hApply)), ICall(2, blockId.bReC)>>)
      [] o = blockId.bReB -> Block(<<IPush(int32(5)), I0("ret")>>)
      [] o = blockId.bReC -> Block(<<I0("ret")>>)
      [] o = funId.fUnder2 -> Fun(blockId.bUnder2, 0, 0)
      [] o = blockId.bUnder2 -> Block(<<IPush(ObjVal(funId.fSub)), ICall(2, blockId.bUnderC)>>)
      [] o = blockId.bUnderC -> Block(<<I0("ret")>>)
      [] o = funId.fUnder5 -> Fun(blockId.bUnder5, 0, 0)
      [] o = blockId.bUnder5 -> Block(<<IPush(ObjVal(funId.fSub)), ICall(5, blockId.bUnder5C)>>)
      [] o = blockId.bUnder5C -> Block(<<I0("ret")>>)
      [] o = funId.fCallArg -> Fun(blockId.bCallArg, 1, 1)
      [] o = blockId.bCallArg -> Block(<<IIdx("get_local", 0), ICall(0, blockId.bCallArgC)>>)
      [] o = blockId.bCallArgC -> Block(<<I0("ret")>>)
      [] o = funId.fBadCallee5 -> Fun(blockId.bBadCallee5, 0, 0)
      [] o = blockId.bBadCallee5 -> Block(<<IPush(int32(3)), ICall(5, blockId.bBadCallee5C)>>)
      [] o = blockId.bBadCallee5C -> Block(<<I0("ret")>>)
      [] o = funId.fJmpEmpty -> Fun(blockId.bJmpE, 0, 0)
      [] o = blockId.bJmpE -> Block(<<IJump(blockId.bJmpEmpty)>>)
      [] o = blockId.bJmpEmpty -> Block(<<>>)
      [] o = funId.fBrEmpty -> Fun(blockId.bBrE, 1, 1)
      [] o = blockId.bBrE -> Block(<<IIdx("get_local", 0), IIf(blockId.bBrEmpty, blockId.bBrX)>>)
      [] o = blockId.bBrEmpty -> Block(<<>>)
      [] o = blockId.bBrX -> Block(<<IPush(int32(1)), I0("ret")>>)
      [] o = funId.fCallEmpty -> Fun(blockId.bCallE, 0, 0)
      [] o = blockId.bCallE -> Block(<<IPush(ObjVal(funId.fEmpty)), ICall(0, blockId.bCallEC)>>)
      [] o = blockId.bCallEC -> Block(<<I0("ret")>>)
      [] o = funId.fRetEmpty -> Fun(blockId.bRetE, 0, 0)
      [] o = blockId.bRetE -> Block(<<IPush(ObjVal(funId.fRet)), ICall(0, blockId.bRetEmpty)>>)
      [] o = blockId.bRetEmpty -> Block(<<>>)
      [] o = funId.fChar -> Fun(blockId.bChar, 2, 2)
      [] o = blockId.bChar -> Block(<<IIdx("get_local", 0), IIdx("get_local", 1),
                              I0("get_char"), I0("ret")>>)
      [] o = funId.fTwoChars -> Fun(blockId.bTwoChars, 3, 3)
      [] o = blockId.bTwoChars -> Block(<<IIdx("get_local", 0), IIdx("get_local", 1),
                                  I0("get_char"),
                                  IIdx("get_local", 0), IIdx("get_local", 2),
                                  I0("get_char"), I0("pop"), I0("ret")>>)
      [] o = funId.fCode -> Fun(blockId.bCode, 2, 2)
      [] o = blockId.bCode ->
            Block(<<IIdx("get_local", 0), IIdx("get_local", 1),
                    I0("get_char_code"), I0("ret")>>)
      [] o = funId.fGetElem -> Fun(blockId.bGetElem, 2, 2)
      [] o = blockId.bGetElem ->
            Block(<<IIdx("get_local", 0), IIdx("get_local", 1),
                    I0("get_elem"), I0("ret")>>)
      [] o = funId.fSetElem -> Fun(blockId.bSetElem, 3, 3)
      [] o = blockId.bSetElem ->
            Block(<<IIdx("get_local", 0), IIdx("get_local", 1),
                    IIdx("get_local", 2), I0("set_elem"),
                    IPush(int32(1)), I0("ret")>>)
      [] o = funId.fBig -> Fun(blockId.bBig, 0, 0)
      [] o = blockId.bBig -> Block(Pushes(24) \o <<I0("ret")>>)
      [] o = funId.fBigExact -> Fun(blockId.bBigExact, 0, 0)
      [] o = blockId.bBigExact ->
            Block(Pushes(23) \o <<I0("pop"), I0("pop"), I0("pop"), I0("ret")>>)
      [] o = funId.fTwice -> Fun(blockId.bTwice, 0, 0)
      [] o = blockId.bTwice ->
            Block(PushPops(11) \o <<IPush(int32(4)), I0("ret")>>)
      [] o = funId.fManyLocals -> Fun(blockId.bManyLocals, 0, ManyLocals)
      [] o = blockId.bManyLocals -> Block(<<IPush(int32(1)), I0("ret")>>)
      [] o = funId.fCallMany -> Fun(blockId.bCallMany, 0, 0)
      [] o = blockId.bCallMany ->
            Block(<<IPush(ObjVal(funId.fManyLocals)),
                    ICall(0, blockId.bCallManyC)>>)
      [] o = blockId.bCallManyC -> Block(<<I0("ret")>>)
      [] o = funId.fGetField -> Fun(blockId.bGetField, 2, 2)
      [] o = blockId.bGetField ->
            Block(<<IIdx("get_local", 0), IIdx("get_local", 1),
                    I0("get_field"), I0("ret")>>)
      [] o = funId.fSetGet -> Fun(blockId.bSetGet, 3, 3)
      [] o = blockId.bSetGet ->
            Block(<<IIdx("get_local", 0), IIdx("get_local", 1),
                    IIdx("get_local", 2), I0("set_field"),
                    IIdx("get_local", 0), IIdx("get_local", 1),
                    I0("get_field"), I0("ret")>>)

\* Object::hasField
hasField(obj, name) == name \in DOMAIN obj


\* ----------------------------------------------------------------- state
VARIABLES
    code,           \* the written cells of the code heap: first byte -> cell
    codeHeapAlloc,  \* current allocation pointer in the code heap
    versions,       \* the BlockVersion records, in allocation order
    versionMap,     \* block object -> list of version pointers
    instrMap,       \* instruction address -> block version
    retAddrMap,     \* return version -> RetEntry (excVer)
    stack,          \* the value stack, by slot address
    stackPtr,
    framePtr,
    instrPtr,
    cstack,         \* the callFun activations on the native stack, innermost first
    status,         \* "idle", "running", "error" (RunError reached the caller), "dead"
    err,            \* the error of the last call that failed
    result,         \* the value the last outermost callFun returned
    verBase,        \* where the allocator places BlockVersion records
    ncalls,         \* outermost callFun calls made so far
    shadow,         \* history: the stack size at each pending call, innermost first
    charStrings,    \* the cache of one-character strings, by byte value
    strHeap,        \* the bytes of the strings allocated at run time, in order
    arrays,         \* the elements of each array
    objs,           \* the slots (name, value) of each data object, in insertion order
    icSlot,         \* ICache::slotIdx of one site
    icLog,          \* history: the objects the site was asked about, and its answers
    image,          \* the image file the embedding program loaded
    runs,           \* history: each outermost call, with the stack size before it
                    \* and the status and result the caller saw just before it
    entered         \* history: the versions (by index) execCode was at the start of

vars == <<code, codeHeapAlloc, versions, versionMap, instrMap, retAddrMap,
          stack, stackPtr, framePtr, instrPtr, cstack, status, err, result,
          verBase, ncalls, shadow, charStrings, strHeap, arrays, objs, icSlot, icLog,
          image, runs, entered>>

\* RunError messages, by the name the error taxonomy gives them.
RunErrors == {"EmptyBlock", "UnknownOpcode", "MissingField", "ArgCount",
              "NotEnoughLocals", "StackUnderflow", "InvalidCallee",
              "StackImbalance", "IndexOutOfBounds",
              "InvalidFieldName"}
\* Ends of the process: a failed assert, a wild read or write.
Fatal == {"assert", "ub"}

\* The mutable state of the interpreter, threaded through the operators
\* below as the C++ statements thread it through the globals.
Machine ==
    [code |-> code, codeHeapAlloc |-> codeHeapAlloc, versions |-> versions,
     versionMap |-> versionMap, instrMap |-> instrMap,
     retAddrMap |-> retAddrMap, stack |-> stack, stackPtr |-> stackPtr,
     framePtr |-> framePtr, instrPtr |-> instrPtr, cstack |-> cstack,
     result |-> result, shadow |-> shadow, charStrings |-> charStrings,
     strHeap |-> strHeap, arrays |-> arrays, objs |-> objs, err |-> ""]

\* throw RunError(e) / a failed assert: later statements do not run.
Err(m, e) == IF m.err = "" THEN [m EXCEPT !.err = e] ELSE m
OK(m) == m.err = ""

\* Sequencing: F applied to the value of m0, which is evaluated once.
\* Every machine an operator below receives is such a value.
Then(m0, F(_)) == CHOOSE r \in {F(m) : m \in {m0}} : TRUE

\* ------------------------------------------------------------ the stack
stackSizeOf(m) == stackBase - m.stackPtr

pushVal(m, v) ==
    IF ~OK(m) THEN m
    ELSE IF ~(m.stackPtr > stackLimit) THEN Err(m, "assert")
    ELSE IF (m.stackPtr - 1) \notin StackAddrs THEN Err(m, "ub")
    ELSE [m EXCEPT !.stackPtr = @ - 1, !.stack[m.stackPtr - 1] = v]

\* Three pushes in a row.
pushVal3(m, a, b, c) ==
    Then(pushVal(m, a), LAMBDA m1 :
    Then(pushVal(m1, b), LAMBDA m2 : pushVal(m2, c)))

\* The value popVal returns, and the machine after it.
topVal(m) ==
    IF m.stackPtr \in StackAddrs THEN m.stack[m.stackPtr] ELSE ValueDefault

popVal(m) ==
    IF ~OK(m) THEN m
    ELSE IF ~(m.stackPtr < stackBase) THEN Err(m, "assert")
    ELSE IF m.stackPtr \notin StackAddrs THEN Err(m, "ub")
    ELSE [m EXCEPT !.stackPtr = @ + 1]

\* -------------------------------------------------------- the code heap
writeCode(m, cell) ==
    IF ~OK(m) THEN m
    ELSE IF ~(m.codeHeapAlloc < codeHeapLimit) THEN Err(m, "assert")
    ELSE LET a == m.codeHeapAlloc
             w == [m EXCEPT !.code = (a :> cell) @@ @,
                            !.codeHeapAlloc = a + SizeOf(cell.k)]
         IN  IF a + SizeOf(cell.k) <= codeHeapLimit THEN w ELSE Err(w, "assert")

\* writeCode of cells[i], cells[i + 1], ...
RECURSIVE emitFrom(_, _, _)
emitFrom(m, cells, i) ==
    IF i > Len(cells) THEN m
    ELSE Then(writeCode(m, cells[i]), LAMBDA m1 : emitFrom(m1, cells, i + 1))

emit(m, cells) == emitFrom(m, cells, 1)

\* The cell readCode<T> returns at instrPtr, and the machine after it.
cellAt(m) ==
    IF m.instrPtr \in DOMAIN m.code THEN m.code[m.instrPtr] ELSE OpCell("?")

readCode(m, k) ==
    IF ~OK(m) THEN m
    ELSE IF ~(m.instrPtr + SizeOf(k) <= codeHeapLimit) THEN Err(m, "assert")
    ELSE IF m.instrPtr \notin DOMAIN m.code \/ cellAt(m).k # k THEN Err(m, "ub")
    ELSE [m EXCEPT !.instrPtr = @ + SizeOf(k)]

\* ------------------------------------------------- the version registry
IsVer(m, p) == (p - verBase) \in 1 .. Len(m.versions)
Ver(m, p) == m.versions[p - verBase]
VerPtrs(m) == {verBase + i : i \in 1 .. Len(m.versions)}

\* getBlockVersion without the lookup: a new version on every request.
getBlockVersionFresh(m, fun, block) ==
    IF ~OK(m) THEN [m |-> m, ver |-> nullptr]
    ELSE LET p == verBase + Len(m.versions) + 1
             nv == [fun |-> fun, block |-> block, startPtr |-> nullptr,
                    endPtr |-> nullptr, ncompiled |-> 0,
                    reentered |-> FALSE]
         IN  [m |-> [m EXCEPT !.versions = Append(@, nv),
                              !.versionMap =
                                  IF block \in DOMAIN @
                                  THEN [@ EXCEPT ![block] = Append(@, p)]
                                  ELSE (block :> <<p>>) @@ @],
              ver |-> p]

\* getBlockVersion returns the machine and the version pointer.
getBlockVersion(m, fun, block) ==
    IF ~OK(m) THEN [m |-> m, ver |-> nullptr]
    ELSE IF block \notin DOMAIN m.versionMap
    THEN LET p == verBase + Len(m.versions) + 1
             nv == [fun |-> fun, block |-> block, startPtr |-> nullptr,
                    endPtr |-> nullptr, ncompiled |-> 0,
                    reentered |-> FALSE]
         IN  [m |-> [m EXCEPT !.versions = Append(@, nv),
                              !.versionMap = (block :> <<p>>) @@ @],
              ver |-> p]
    ELSE LET vs == m.versionMap[block]
         IN  IF Len(vs) # 1 \/ Ver(m, vs[1]).fun # fun
             THEN [m |-> Err(m, "assert"), ver |-> nullptr]
             ELSE [m |-> m, ver |-> vs[1]]

\* ---------------------------------------------------------- the compiler
\* Instructions that compile to a bare opcode.
OpcodeOf ==
    [pop |-> "POP", swap |-> "SWAP",
     add_i32 |-> "ADD_I32", sub_i32 |-> "SUB_I32", mul_i32 |-> "MUL_I32",
     lt_i32 |-> "LT_I32", le_i32 |-> "LE_I32", gt_i32 |-> "GT_I32",
     ge_i32 |-> "GE_I32", eq_i32 |-> "EQ_I32", eq_bool |-> "EQ_BOOL",
     eq_obj |-> "EQ_OBJ", ret |-> "RET", import |-> "IMPORT",
     get_char |-> "GET_CHAR", get_char_code |-> "GET_CHAR_CODE",
     set_field |-> "SET_FIELD", get_field |-> "GET_FIELD",
     set_elem |-> "SET_ELEM", get_elem |-> "GET_ELEM"]
\* Instructions that compile to an opcode and a uint16_t index.
IdxOpcodeOf == [dup |-> "DUP", get_local |-> "GET_LOCAL", set_local |-> "SET_LOCAL"]

\* op == "call".  instrMap[instrPtr] = version: at is compile's local
\* instrPtr, the address at which the instruction starts.
compileCall(m, v, instr, at) ==
    Then([m EXCEPT !.instrMap = (at :> v) @@ @], LAMBDA m1 :
    IF ~hasField(instr, "num_args") \/ ~hasField(instr, "ret_to")
    THEN Err(m1, "MissingField")
    ELSE
    Then(getBlockVersion(m1, Ver(m1, v).fun, instr.ret_to), LAMBDA r :
    Then(IF hasField(instr, "throw_to")
         THEN getBlockVersion(r.m, Ver(m1, v).fun, instr.throw_to)
         ELSE [m |-> r.m, ver |-> nullptr], LAMBDA x :
    Then(IF OK(x.m)
         THEN [x.m EXCEPT !.retAddrMap = (r.ver :> [excVer |-> x.ver]) @@ @]
         ELSE x.m, LAMBDA m2 :
    emit(m2, <<OpCell("CALL"), U16Cell(U16(instr.num_args)), PtrCell(r.ver)>>)))))

\* The body of the for loop of compile(), for one instruction.
compileInstr(m, v, instr) ==
    IF ~OK(m) THEN m
    ELSE IF ~hasField(instr, "op") THEN Err(m, "MissingField")
    ELSE LET op == instr.op
             at == m.codeHeapAlloc
             fun == Ver(m, v).fun
         IN
         CASE op = "push" ->
                IF ~hasField(instr, "val") THEN Err(m, "MissingField")
                ELSE emit(m, <<OpCell("PUSH"), ValCell(instr.val)>>)
           [] op \in DOMAIN IdxOpcodeOf ->
                IF ~hasField(instr, "idx") THEN Err(m, "MissingField")
                ELSE emit(m, <<OpCell(IdxOpcodeOf[op]), U16Cell(U16(instr.idx))>>)
           [] op \in DOMAIN OpcodeOf ->
                emit(m, <<OpCell(OpcodeOf[op])>>)
           [] op = "jump" ->
                IF ~hasField(instr, "to") THEN Err(m, "MissingField")
                ELSE Then(getBlockVersion(m, fun, instr.to), LAMBDA d :
                     emit(d.m, <<OpCell("JUMP_STUB"), PtrCell(d.ver)>>))
           [] op = "if_true" ->
                IF ~hasField(instr, "then") \/ ~hasField(instr, "else")
                THEN Err(m, "MissingField")
                ELSE Then(getBlockVersion(m, fun, instr.then), LAMBDA t :
                     Then(getBlockVersion(t.m, fun, instr.else), LAMBDA e :
                     emit(e.m, <<OpCell("IF_TRUE"), PtrCell(t.ver),
                                 PtrCell(e.ver)>>)))
           [] op = "call" -> compileCall(m, v, instr, at)
           [] op \in {"throw", "abort"} ->
                Then([m EXCEPT !.instrMap = (at :> v) @@ @], LAMBDA m1 :
                emit(m1, <<OpCell(IF op = "throw" THEN "THROW" ELSE "ABORT")>>))
           [] OTHER -> Err(m, "UnknownOpcode")

RECURSIVE compileFrom(_, _, _, _)
compileFrom(m, v, instrs, i) ==
    IF i > Len(instrs) \/ ~OK(m) THEN m
    ELSE Then(compileInstr(m, v, instrs[i]), LAMBDA m1 :
         compileFrom(m1, v, instrs, i + 1))

\* compile marking the block start before it looks at the instructions.
compileMarksFirst(m, v) ==
    IF ~OK(m) THEN m
    ELSE IF ~IsVer(m, v) THEN Err(m, "ub")
    ELSE LET block == Object(Ver(m, v).block)
             i == v - verBase
         IN
         Then(IF Ver(m, v).startPtr # nullptr
              THEN [m EXCEPT !.versions[i].reentered = TRUE] ELSE m, LAMBDA m0 :
         Then([m0 EXCEPT !.versions[i].startPtr = m0.codeHeapAlloc,
                         !.versions[i].ncompiled = @ + 1], LAMBDA m1 :
         IF ~hasField(block, "instrs") THEN Err(m1, "MissingField")
         ELSE IF Len(block.instrs) = 0 THEN Err(m1, "EmptyBlock")
         ELSE
         Then(compileFrom(m1, v, block.instrs, 1), LAMBDA m2 :
         IF OK(m2)
         THEN [m2 EXCEPT !.versions[i].endPtr = m2.codeHeapAlloc]
         ELSE m2)))

\* compile(version).  ncompiled and reentered are history: how often the
\* block start was marked, and whether compile was entered for a version
\* whose startPtr was already set.
compile(m, v) ==
    IF ~OK(m) THEN m
    ELSE IF ~IsVer(m, v) THEN Err(m, "ub")
    ELSE LET block == Object(Ver(m, v).block)
             i == v - verBase
         IN
         Then(IF Ver(m, v).startPtr # nullptr
              THEN [m EXCEPT !.versions[i].reentered = TRUE] ELSE m, LAMBDA m0 :
         IF ~hasField(block, "instrs") THEN Err(m0, "MissingField")
         ELSE IF Len(block.instrs) = 0 THEN Err(m0, "EmptyBlock")
         ELSE
         Then([m0 EXCEPT !.versions[i].startPtr = m0.codeHeapAlloc,
                         !.versions[i].ncompiled = @ + 1], LAMBDA m1 :
         Then(compileFrom(m1, v, block.instrs, 1), LAMBDA m2 :
         IF OK(m2)
         THEN [m2 EXCEPT !.versions[i].endPtr = m2.codeHeapAlloc]
         ELSE m2)))

\* if (!ver->startPtr) compile(ver);
compileIfNeeded(m, v) ==
    IF ~OK(m) THEN m
    ELSE IF ~IsVer(m, v) THEN Err(m, "ub")
    ELSE IF Ver(m, v).startPtr = nullptr THEN compile(m, v)
    ELSE m

\* instrPtr = ver->startPtr
jumpTo(m, v) ==
    IF ~OK(m) THEN m ELSE [m EXCEPT !.instrPtr = Ver(m, v).startPtr]


\* ------------------------------------------------------- calls and returns
\* A callFun activation on the native stack.  preCallSz is its local; host
\* tells whether a host function called it from hostCall, whose numArgs and
\* retVer are then pending; fp0 and ip0 (history) are framePtr and instrPtr
\* at the call.
Activation(sz, host, n, rv, fp, ip, fun, args) ==
    [preCallSz |-> sz, host |-> host, numArgs |-> n, retVer |-> rv,
     fp0 |-> fp, ip0 |-> ip, fun |-> fun, args |-> args]

\* copyArgs filling the locals from the last argument.
copyArgsReversed(m, args) ==
    IF ~OK(m) THEN m
    ELSE IF \E i \in 1 .. Len(args) : (m.framePtr - (i - 1)) \notin StackAddrs
    THEN Err(m, "ub")
    ELSE [m EXCEPT !.stack =
            [a \in StackAddrs |->
                IF m.framePtr - a \in 0 .. (Len(args) - 1)
                THEN args[Len(args) - (m.framePtr - a)] ELSE m.stack[a]]]

\* framePtr[-i] = args[i] for every argument.
copyArgs(m, args) ==
    IF ~OK(m) THEN m
    ELSE IF \E i \in 1 .. Len(args) : (m.framePtr - (i - 1)) \notin StackAddrs
    THEN Err(m, "ub")
    ELSE [m EXCEPT !.stack =
            [a \in StackAddrs |->
                IF m.framePtr - a \in 0 .. (Len(args) - 1)
                THEN args[m.framePtr - a + 1] ELSE m.stack[a]]]

\* callFunFrame saving framePtr after it was moved.
callFunFrameLateSave(m, numLocals, args) ==
    Then(pushVal(m, RawPtr(m.instrPtr)), LAMBDA m1 :
    IF ~OK(m1) THEN m1
    ELSE
    Then([m1 EXCEPT !.framePtr = m1.stackPtr - 1,
                    !.stackPtr = @ - numLocals], LAMBDA m2 :
    IF ~(m2.stackPtr >= stackLimit) THEN Err(m2, "assert")
    ELSE
    Then(pushVal3(m2, RawPtr(m1.stackPtr), RawPtr(m2.framePtr),
                  RawPtr(nullptr)), LAMBDA m4 :
    copyArgs(m4, args))))

\* The frame callFun builds: stackPtr and framePtr moved, the three
\* saved-context words pushed, the arguments copied into the locals.
callFunFrame(m, numLocals, args) ==
    Then(pushVal(m, RawPtr(m.instrPtr)), LAMBDA m1 :
    IF ~OK(m1) THEN m1
    ELSE
    Then([m1 EXCEPT !.framePtr = m1.stackPtr - 1,
                    !.stackPtr = @ - numLocals], LAMBDA m2 :
    IF ~(m2.stackPtr >= stackLimit) THEN Err(m2, "assert")
    ELSE
    Then(pushVal3(m2, RawPtr(m1.stackPtr), RawPtr(m1.framePtr),
                  RawPtr(nullptr)), LAMBDA m4 :
    copyArgs(m4, args))))

\* Compile the entry version without looking at startPtr, check it has
\* code, and point instrPtr at it.
callFunEntry(m, fun, entryBlock) ==
    Then(getBlockVersion(m, fun, entryBlock), LAMBDA e :
    Then(compile(e.m, e.ver), LAMBDA m7 :
    IF ~OK(m7) THEN m7
    ELSE IF ~(Ver(m7, e.ver).endPtr - Ver(m7, e.ver).startPtr > 0)
    THEN Err(m7, "assert")
    ELSE jumpTo(m7, e.ver)))

\* callFun up to the call of execCode.  host, n, rv describe the pending
\* hostCall when a host function makes the call.
callFun(m, fun, args, host, n, rv) ==
    LET f == Object(fun)
    IN  IF ~OK(m) THEN m
        ELSE IF ~hasField(f, "num_params") \/ ~hasField(f, "num_locals")
        THEN Err(m, "MissingField")
        ELSE IF ~(Len(args) <= f.num_params /\ f.num_params <= f.num_locals)
        THEN Err(m, "assert")
        ELSE
        Then(callFunFrame(m, f.num_locals, args), LAMBDA m5 :
        IF ~OK(m5) THEN m5
        ELSE IF ~hasField(f, "entry") THEN Err(m5, "MissingField")
        ELSE
        Then(callFunEntry(m5, fun, f.entry), LAMBDA m9 :
        IF ~OK(m9) THEN m9
        ELSE [m9 EXCEPT
                !.cstack = <<Activation(stackSizeOf(m), host, n, rv,
                                        m.framePtr, m.instrPtr, fun, args)>> \o @,
                !.shadow = <<[kind |-> "top", sz |-> stackSizeOf(m),
                              nargs |-> 0]>> \o @]))

\* funCallFrame saving the stack pointer below the arguments.
funCallFrameKeepsArgs(m, numLocals, numArgs, retVer) ==
    IF ~OK(m) THEN m
    ELSE IF ~(m.stackPtr > stackLimit) THEN Err(m, "assert")
    ELSE
    Then([m EXCEPT !.framePtr = m.stackPtr + numArgs - 1,
                   !.stackPtr = @ - (numLocals - numArgs)], LAMBDA m2 :
    pushVal3(m2, RawPtr(m.stackPtr), RawPtr(m.framePtr), RawPtr(retVer)))

\* funCallFrame leaving framePtr at the caller's frame.
funCallFrameSharedFp(m, numLocals, numArgs, retVer) ==
    IF ~OK(m) THEN m
    ELSE IF ~(m.stackPtr > stackLimit) THEN Err(m, "assert")
    ELSE
    Then([m EXCEPT !.stackPtr = @ - (numLocals - numArgs)], LAMBDA m2 :
    pushVal3(m2, RawPtr(m.stackPtr + numArgs), RawPtr(m.framePtr),
             RawPtr(retVer)))

\* The frame funCall builds for numArgs arguments already on the stack.
funCallFrame(m, numLocals, numArgs, retVer) ==
    IF ~OK(m) THEN m
    ELSE IF ~(m.stackPtr > stackLimit) THEN Err(m, "assert")
    ELSE
    Then([m EXCEPT !.framePtr = m.stackPtr + numArgs - 1,
                   !.stackPtr = @ - (numLocals - numArgs)], LAMBDA m2 :
    pushVal3(m2, RawPtr(m.stackPtr + numArgs), RawPtr(m.framePtr),
             RawPtr(retVer)))

\* checkArgCount and the two checks after it.
funCallChecks(m, f, numArgs) ==
    IF ~OK(m) THEN m
    ELSE IF ~hasField(f, "num_locals") \/ ~hasField(f, "num_params")
    THEN Err(m, "MissingField")
    ELSE IF numArgs # f.num_params THEN Err(m, "ArgCount")
    ELSE IF f.num_locals < f.num_params THEN Err(m, "NotEnoughLocals")
    ELSE m

\* funCall(callInstr, fun, numArgs, retVer)
funCall(m, callInstr, fun, numArgs, retVer) ==
    LET f == Object(fun)
    IN  IF ~OK(m) THEN m
        ELSE IF ~hasField(f, "entry") THEN Err(m, "MissingField")
        ELSE
        Then(getBlockVersion(m, fun, f.entry), LAMBDA e :
        Then(compileIfNeeded(e.m, e.ver), LAMBDA m1 :
        Then(funCallChecks(m1, f, numArgs), LAMBDA m2 :
        IF ~OK(m2) THEN m2
        ELSE
        Then(funCallFrame(m2, f.num_locals, numArgs, retVer), LAMBDA m3 :
        jumpTo(m3, e.ver)))))

\* hostCall after the host function returned retVal.
hostCallTail(m, numArgs, retVer, retVal) ==
    IF ~OK(m) THEN m
    ELSE
    Then(pushVal([m EXCEPT !.stackPtr = @ + numArgs], retVal), LAMBDA m1 :
    Then(compileIfNeeded(m1, retVer), LAMBDA m2 : jumpTo(m2, retVer)))

\* hostArgs taking the parameters from the top of the stack downwards.
hostArgsReversed(m, numArgs) ==
    [i \in 1 .. numArgs |-> m.stack[m.stackPtr + i - 1]]

\* The argument vector of a host call, in parameter order: *args,
\* *(args - 1), *(args - 2).
hostArgs(m, numArgs) ==
    [i \in 1 .. numArgs |-> m.stack[m.stackPtr + numArgs - i]]

\* The host functions of the embedding program that return at once, with
\* their arities, and what they return for the parameters a: hConst() is 42,
\* hId(x) is x, hSub(x, y) is x - y, hPack(x, y, z) is 100x + 10y + z.
HostArity == (hConst :> 0) @@ (hId :> 1) @@ (hSub :> 2) @@ (hPack :> 3)
HostResult(h, a) ==
    CASE h = hConst -> int32(42)
      [] h = hId -> a[1]
      [] h = hSub -> int32(a[1].w - a[2].w)
      [] h = hPack -> int32(100 * a[1].w + 10 * a[2].w + a[3].w)

\* hostCall(callInstr, fun, numArgs, retVer) up to the point where the host
\* function either returned or entered a nested execCode.  hApply(f, ...)
\* calls callFun(f, ...).
hostCall(m, callInstr, fun, numArgs, retVer) ==
    IF ~OK(m) THEN m
    ELSE IF numArgs > 3 THEN Err(m, "assert")
    ELSE LET a == hostArgs(m, numArgs)
         IN  IF fun.w = hApply /\ numArgs >= 1 /\ a[1].tag = "OBJECT"
             THEN callFun(m, a[1].w, Tail(a), TRUE, numArgs, retVer)
             ELSE IF fun.w \in DOMAIN HostArity /\ HostArity[fun.w] = numArgs
             THEN hostCallTail(m, numArgs, retVer, HostResult(fun.w, a))
             ELSE Err(m, "assert")

\* callFunReturn without the comparison of the stack sizes.
callFunReturnUnchecked(m, retVal) ==
    IF ~OK(m) THEN m
    ELSE
    Then(popVal(m), LAMBDA m1 :
    IF ~OK(m1) THEN m1
    ELSE
    Then([m1 EXCEPT !.instrPtr = topVal(m).w, !.cstack = Tail(@)], LAMBDA m3 :
    IF Head(m1.cstack).host
    THEN hostCallTail(m3, Head(m1.cstack).numArgs, Head(m1.cstack).retVer,
                      retVal)
    ELSE [m3 EXCEPT !.result = retVal]))

\* The part of callFun after execCode returned retVal, and what follows it
\* in the caller: the tail of hostCall, or the embedding program.
callFunReturn(m, retVal) ==
    IF ~OK(m) THEN m
    ELSE
    Then(popVal(m), LAMBDA m1 :
    IF ~OK(m1) THEN m1
    ELSE
    Then([m1 EXCEPT !.instrPtr = topVal(m).w], LAMBDA m2 :
    IF stackSizeOf(m2) # Head(m2.cstack).preCallSz
    THEN Err(m2, "StackImbalance")
    ELSE
    Then([m2 EXCEPT !.cstack = Tail(@)], LAMBDA m3 :
    IF Head(m2.cstack).host
    THEN hostCallTail(m3, Head(m2.cstack).numArgs, Head(m2.cstack).retVer,
                      retVal)
    ELSE [m3 EXCEPT !.result = retVal])))

\* RET taking the saved sp for the saved fp and the reverse.
execRetSwapped(m) ==
    Then(popVal(m), LAMBDA m1 :
    Then(popVal(m1), LAMBDA m2 :
    Then(popVal(m2), LAMBDA m3 :
    Then(popVal(m3), LAMBDA m4 :
    IF ~OK(m4) THEN m4
    ELSE
    Then([m4 EXCEPT !.framePtr = topVal(m3).w,
                    !.stackPtr = topVal(m2).w,
                    !.shadow = IF @ = <<>> THEN @ ELSE Tail(@)], LAMBDA m5 :
    IF topVal(m1).w = nullptr THEN callFunReturn(m5, topVal(m))
    ELSE
    Then(pushVal(m5, topVal(m)), LAMBDA m6 :
    Then(compileIfNeeded(m6, topVal(m1).w), LAMBDA m7 :
    jumpTo(m7, topVal(m1).w))))))))

\* case RET
execRet(m) ==
    Then(popVal(m), LAMBDA m1 :
    Then(popVal(m1), LAMBDA m2 :
    Then(popVal(m2), LAMBDA m3 :
    Then(popVal(m3), LAMBDA m4 :
    IF ~OK(m4) THEN m4
    ELSE
    Then([m4 EXCEPT !.framePtr = topVal(m2).w,
                    !.stackPtr = topVal(m3).w,
                    !.shadow = IF @ = <<>> THEN @ ELSE Tail(@)], LAMBDA m5 :
    IF topVal(m1).w = nullptr THEN callFunReturn(m5, topVal(m))
    ELSE
    Then(pushVal(m5, topVal(m)), LAMBDA m6 :
    Then(compileIfNeeded(m6, topVal(m1).w), LAMBDA m7 :
    jumpTo(m7, topVal(m1).w))))))))

\* callDispatch taking every callee that is no object for a host function.
callDispatchNoElse(m, opAddr, callee, numArgs, retVer, szBefore) ==
    IF ~OK(m) THEN m
    ELSE IF stackSizeOf(m) < numArgs THEN Err(m, "StackUnderflow")
    ELSE IF callee.tag = "OBJECT"
    THEN Then(funCall(m, opAddr, callee.w, numArgs, retVer), LAMBDA m4 :
         IF OK(m4)
         THEN [m4 EXCEPT !.shadow = <<[kind |-> "call", sz |-> szBefore,
                                       nargs |-> numArgs]>> \o @]
         ELSE m4)
    ELSE hostCall(m, opAddr, callee, numArgs, retVer)

\* The dispatch of CALL on the callee, after the callee was popped.
callDispatch(m, opAddr, callee, numArgs, retVer, szBefore) ==
    IF ~OK(m) THEN m
    ELSE IF stackSizeOf(m) < numArgs THEN Err(m, "StackUnderflow")
    ELSE IF callee.tag = "OBJECT"
    THEN Then(funCall(m, opAddr, callee.w, numArgs, retVer), LAMBDA m4 :
         IF OK(m4)
         THEN [m4 EXCEPT !.shadow = <<[kind |-> "call", sz |-> szBefore,
                                       nargs |-> numArgs]>> \o @]
         ELSE m4)
    ELSE IF callee.tag = "HOSTFN"
    THEN hostCall(m, opAddr, callee, numArgs, retVer)
    ELSE Err(m, "InvalidCallee")

\* case CALL, after the opcode was read at opAddr
execCall(m, opAddr) ==
    Then(readCode(m, "u16"), LAMBDA m1 :
    Then(readCode(m1, "ptr"), LAMBDA m2 :
    Then(popVal(m2), LAMBDA m3 :
    callDispatch(m3, opAddr, topVal(m2), cellAt(m).n, cellAt(m1).n,
                 stackSizeOf(m)))))


\* --------------------------------------------------- the other handlers
\* Each takes the machine after the opcode was read.
execPush(m) ==
    Then(readCode(m, "val"), LAMBDA m1 : pushVal(m1, cellAt(m).val))

execPop(m) == popVal(m)

execDup(m) ==
    Then(readCode(m, "u16"), LAMBDA m1 :
    IF ~OK(m1) THEN m1
    ELSE IF (m1.stackPtr + cellAt(m).n) \notin StackAddrs THEN Err(m1, "ub")
    ELSE pushVal(m1, m1.stack[m1.stackPtr + cellAt(m).n]))

execSwap(m) ==
    Then(popVal(m), LAMBDA m1 :
    Then(popVal(m1), LAMBDA m2 :
    Then(pushVal(m2, topVal(m)), LAMBDA m3 :
    pushVal(m3, topVal(m1)))))

execSetLocal(m) ==
    Then(readCode(m, "u16"), LAMBDA m1 :
    IF ~OK(m1) THEN m1
    ELSE IF ~(m1.stackPtr > stackLimit) THEN Err(m1, "assert")
    ELSE
    Then(popVal(m1), LAMBDA m3 :
    IF ~OK(m3) THEN m3
    ELSE IF (m3.framePtr - cellAt(m).n) \notin StackAddrs THEN Err(m3, "ub")
    ELSE [m3 EXCEPT !.stack[m3.framePtr - cellAt(m).n] = topVal(m1)]))

execGetLocal(m) ==
    Then(readCode(m, "u16"), LAMBDA m1 :
    IF ~OK(m1) THEN m1
    ELSE IF ~(m1.stackPtr > stackLimit) THEN Err(m1, "assert")
    ELSE IF (m1.framePtr - cellAt(m).n) \notin StackAddrs THEN Err(m1, "ub")
    ELSE pushVal(m1, m1.stack[m1.framePtr - cellAt(m).n]))

\* The result of an int32 opcode on arg0, arg1.  The operands of the image
\* stay far below 2^31, where signed overflow would be undefined.
I32Result(op, arg0, arg1) ==
    CASE op = "ADD_I32" -> int32(arg0 + arg1)
      [] op = "SUB_I32" -> int32(arg0 - arg1)
      [] op = "MUL_I32" -> int32(arg0 * arg1)
      [] op = "LT_I32" -> boolVal(arg0 < arg1)
      [] op = "LE_I32" -> boolVal(arg0 <= arg1)
      [] op = "GT_I32" -> boolVal(arg0 > arg1)
      [] op = "GE_I32" -> boolVal(arg0 >= arg1)
      [] op = "EQ_I32" -> boolVal(arg0 = arg1)

\* popInt32: popVal, then assert (val.isInt32())
popInt32(m) ==
    Then(popVal(m), LAMBDA m1 :
    IF OK(m1) /\ topVal(m).tag # "INT32" THEN Err(m1, "assert") ELSE m1)

\* The int32 opcodes: arg1 is popped first.
execI32(m, op) ==
    Then(popInt32(m), LAMBDA m1 :
    Then(popInt32(m1), LAMBDA m2 :
    IF ~OK(m2) THEN m2
    ELSE pushVal(m2, I32Result(op, topVal(m1).w, topVal(m).w))))

popStr(m) ==
    Then(popVal(m), LAMBDA m1 :
    IF OK(m1) /\ topVal(m).tag # "STRING" THEN Err(m1, "assert") ELSE m1)

\* The bytes of the string s.
strData(m, s) ==
    IF s \in DOMAIN ImageStr THEN ImageStr[s] ELSE m.strHeap[s - strBase]

\* idx >= str.length() for idx = (size_t)n: a negative int32 becomes an
\* index above every length.
IdxOutOfBounds(n, len) == n < 0 \/ n >= len

\* String(buf) for char buf[2] = { ch, 0 }: a new string holding the bytes
\* of buf up to its first zero byte.
CStr(ch) == IF ch = 0 THEN <<>> ELSE <<ch>>
newCharString(m, ch) ==
    [m EXCEPT !.strHeap = Append(@, CStr(ch)),
              !.charStrings[ch] = StrVal(strBase + Len(m.strHeap) + 1)]

\* case GET_CHAR without the test of the cache: a new string every time.
execGetCharNoMemo(m) ==
    Then(popInt32(m), LAMBDA m1 :
    Then(popStr(m1), LAMBDA m2 :
    IF ~OK(m2) THEN m2
    ELSE IF IdxOutOfBounds(topVal(m).w, Len(strData(m2, topVal(m1).w)))
    THEN Err(m2, "IndexOutOfBounds")
    ELSE
    Then(newCharString(m2, strData(m2, topVal(m1).w)[topVal(m).w + 1]),
         LAMBDA m3 :
    pushVal(m3, m3.charStrings[strData(m2, topVal(m1).w)[topVal(m).w + 1]]))))

\* case GET_CHAR
execGetChar(m) ==
    Then(popInt32(m), LAMBDA m1 :
    Then(popStr(m1), LAMBDA m2 :
    IF ~OK(m2) THEN m2
    ELSE IF IdxOutOfBounds(topVal(m).w, Len(strData(m2, topVal(m1).w)))
    THEN Err(m2, "IndexOutOfBounds")
    ELSE
    Then(strData(m2, topVal(m1).w)[topVal(m).w + 1], LAMBDA ch :
    Then(IF m2.charStrings[ch] = ValueFALSE
         THEN newCharString(m2, ch) ELSE m2, LAMBDA m3 :
    pushVal(m3, m3.charStrings[ch])))))

\* case GET_CHAR_CODE
execGetCharCode(m) ==
    Then(popInt32(m), LAMBDA m1 :
    Then(popStr(m1), LAMBDA m2 :
    IF ~OK(m2) THEN m2
    ELSE IF IdxOutOfBounds(topVal(m).w, Len(strData(m2, topVal(m1).w)))
    THEN Err(m2, "IndexOutOfBounds")
    ELSE pushVal(m2, int32(strData(m2, topVal(m1).w)[topVal(m).w + 1]))))

\* Array(popVal())
popArr(m) ==
    Then(popVal(m), LAMBDA m1 :
    IF ~OK(m1) THEN m1
    ELSE IF topVal(m).tag # "ARRAY" THEN Err(m1, "assert")
    ELSE IF topVal(m).w \notin DOMAIN m1.arrays THEN Err(m1, "ub")
    ELSE m1)

\* case SET_ELEM
execSetElem(m) ==
    Then(popVal(m), LAMBDA m1 :
    Then(popInt32(m1), LAMBDA m2 :
    Then(popArr(m2), LAMBDA m3 :
    IF ~OK(m3) THEN m3
    ELSE IF IdxOutOfBounds(topVal(m1).w, Len(m3.arrays[topVal(m2).w]))
    THEN Err(m3, "IndexOutOfBounds")
    ELSE [m3 EXCEPT !.arrays[topVal(m2).w][topVal(m1).w + 1] = topVal(m)])))

\* case GET_ELEM yielding undef for an index outside the array.
execGetElemUndef(m) ==
    Then(popInt32(m), LAMBDA m1 :
    Then(popArr(m1), LAMBDA m2 :
    IF ~OK(m2) THEN m2
    ELSE IF IdxOutOfBounds(topVal(m).w, Len(m2.arrays[topVal(m1).w]))
    THEN pushVal(m2, ValueUNDEF)
    ELSE pushVal(m2, m2.arrays[topVal(m1).w][topVal(m).w + 1])))

\* case GET_ELEM
execGetElem(m) ==
    Then(popInt32(m), LAMBDA m1 :
    Then(popArr(m1), LAMBDA m2 :
    IF ~OK(m2) THEN m2
    ELSE IF IdxOutOfBounds(topVal(m).w, Len(m2.arrays[topVal(m1).w]))
    THEN Err(m2, "IndexOutOfBounds")
    ELSE pushVal(m2, m2.arrays[topVal(m1).w][topVal(m).w + 1])))

popObj(m) ==
    Then(popVal(m), LAMBDA m1 :
    IF ~OK(m1) THEN m1
    ELSE IF topVal(m).tag # "OBJECT" THEN Err(m1, "assert")
    ELSE IF topVal(m).w \notin DOMAIN m1.objs THEN Err(m1, "ub")
    ELSE m1)

\* isValidIdent: a letter or an underscore, then letters, digits and
\* underscores.
IdentStart == (65 .. 90) \cup (97 .. 122) \cup {95}
isValidIdent(name) ==
    /\ name # <<>>
    /\ name[1] \in IdentStart
    /\ \A k \in DOMAIN name : name[k] \in IdentStart \cup (48 .. 57)

\* Object::hasField, getField and setField on the slots of an object.
slotOf(slots, name) == CHOOSE k \in DOMAIN slots : slots[k].name = name
objHasField(slots, name) == \E k \in DOMAIN slots : slots[k].name = name
objGetField(slots, name) == slots[slotOf(slots, name)].val
objSetField(slots, name, v) ==
    IF objHasField(slots, name)
    THEN [slots EXCEPT ![slotOf(slots, name)].val = v]
    ELSE Append(slots, [name |-> name, val |-> v])

\* case SET_FIELD taking every string for a field name.
execSetFieldAnyName(m) ==
    Then(popVal(m), LAMBDA m1 :
    Then(popStr(m1), LAMBDA m2 :
    Then(popObj(m2), LAMBDA m3 :
    IF ~OK(m3) THEN m3
    ELSE [m3 EXCEPT !.objs[topVal(m2).w] =
            objSetField(@, strData(m3, topVal(m1).w), topVal(m))])))

\* case SET_FIELD
execSetField(m) ==
    Then(popVal(m), LAMBDA m1 :
    Then(popStr(m1), LAMBDA m2 :
    Then(popObj(m2), LAMBDA m3 :
    IF ~OK(m3) THEN m3
    ELSE IF ~isValidIdent(strData(m3, topVal(m1).w))
    THEN Err(m3, "InvalidFieldName")
    ELSE [m3 EXCEPT !.objs[topVal(m2).w] =
            objSetField(@, strData(m3, topVal(m1).w), topVal(m))])))

\* case GET_FIELD
execGetField(m) ==
    Then(popStr(m), LAMBDA m1 :
    Then(popObj(m1), LAMBDA m2 :
    IF ~OK(m2) THEN m2
    ELSE IF ~objHasField(m2.objs[topVal(m1).w], strData(m2, topVal(m).w))
    THEN Err(m2, "MissingField")
    ELSE pushVal(m2, objGetField(m2.objs[topVal(m1).w],
                                 strData(m2, topVal(m).w)))))

\* JUMP_STUB that compiles and jumps but leaves the stub in place.
execJumpStubNoPatch(m, opAddr) ==
    Then(readCode(m, "ptr"), LAMBDA m1 :
    Then(compileIfNeeded(m1, cellAt(m).n), LAMBDA m2 :
    IF ~OK(m2) THEN m2
    ELSE [m2 EXCEPT !.instrPtr = Ver(m2, cellAt(m).n).startPtr]))

\* case JUMP_STUB: op is the cell at opAddr, dstAddr the cell after it.
execJumpStub(m, opAddr) ==
    Then(readCode(m, "ptr"), LAMBDA m1 :
    Then(compileIfNeeded(m1, cellAt(m).n), LAMBDA m2 :
    IF ~OK(m2) THEN m2
    ELSE [m2 EXCEPT !.code[opAddr] = OpCell("JUMP"),
                    !.code[m.instrPtr] = PtrCell(Ver(m2, cellAt(m).n).startPtr),
                    !.instrPtr = Ver(m2, cellAt(m).n).startPtr]))

\* case JUMP
execJump(m) ==
    Then(readCode(m, "ptr"), LAMBDA m1 :
    IF ~OK(m1) THEN m1 ELSE [m1 EXCEPT !.instrPtr = cellAt(m).n])

\* takeBranch that compiles and jumps but leaves the target word as it is.
takeBranchUnpatched(m, wordAt) ==
    IF ~OK(m) THEN m
    ELSE IF m.code[wordAt].n < codeHeap \/ m.code[wordAt].n >= codeHeapLimit
    THEN Then(compileIfNeeded(m, m.code[wordAt].n), LAMBDA m1 :
         IF ~OK(m1) THEN m1
         ELSE [m1 EXCEPT !.instrPtr = Ver(m1, m.code[wordAt].n).startPtr])
    ELSE [m EXCEPT !.instrPtr = m.code[wordAt].n]

\* One side of IF_TRUE: the target word is the cell at wordAt.
takeBranch(m, wordAt) ==
    IF ~OK(m) THEN m
    ELSE IF m.code[wordAt].n < codeHeap \/ m.code[wordAt].n >= codeHeapLimit
    THEN Then(compileIfNeeded(m, m.code[wordAt].n), LAMBDA m1 :
         IF ~OK(m1) THEN m1
         ELSE [m1 EXCEPT
                 !.code[wordAt] = PtrCell(Ver(m1, m.code[wordAt].n).startPtr),
                 !.instrPtr = Ver(m1, m.code[wordAt].n).startPtr])
    ELSE [m EXCEPT !.instrPtr = m.code[wordAt].n]

\* IF_TRUE taking the else side on FALSE only.
execIfTrueTruthy(m) ==
    Then(readCode(m, "ptr"), LAMBDA m1 :
    Then(readCode(m1, "ptr"), LAMBDA m2 :
    Then(popVal(m2), LAMBDA m3 :
    IF ~OK(m3) THEN m3
    ELSE IF topVal(m2) # ValueFALSE THEN takeBranch(m3, m.instrPtr)
    ELSE takeBranch(m3, m1.instrPtr))))

\* case IF_TRUE
execIfTrue(m) ==
    Then(readCode(m, "ptr"), LAMBDA m1 :
    Then(readCode(m1, "ptr"), LAMBDA m2 :
    Then(popVal(m2), LAMBDA m3 :
    IF ~OK(m3) THEN m3
    ELSE IF topVal(m2) = ValueTRUE THEN takeBranch(m3, m.instrPtr)
    ELSE takeBranch(m3, m1.instrPtr))))

\* ---------------------------------------------------------------- actions
\* The globals after a step that ends in machine m.  A RunError unwinds
\* every native frame up to the embedding program and restores nothing; a
\* failed assert ends the process where it stands.
Commit(m) ==
    /\ code' = m.code
    /\ codeHeapAlloc' = m.codeHeapAlloc
    /\ versions' = m.versions
    /\ versionMap' = m.versionMap
    /\ instrMap' = m.instrMap
    /\ retAddrMap' = m.retAddrMap
    /\ stack' = m.stack
    /\ stackPtr' = m.stackPtr
    /\ framePtr' = m.framePtr
    /\ instrPtr' = m.instrPtr
    /\ result' = m.result
    /\ err' = m.err
    /\ cstack' = IF m.err \in RunErrors THEN <<>> ELSE m.cstack
    /\ shadow' = IF m.err \in RunErrors THEN <<>> ELSE m.shadow
    /\ status' = IF m.err \in Fatal THEN "dead"
                 ELSE IF m.err \in RunErrors THEN "error"
                 ELSE IF m.cstack = <<>> THEN "idle"
                 ELSE "running"
    /\ charStrings' = m.charStrings
    /\ strHeap' = m.strHeap
    /\ arrays' = m.arrays
    /\ objs' = m.objs
    /\ icSlot' = icSlot
    /\ icLog' = icLog
    /\ verBase' = verBase
    /\ image' = image
    /\ entered' = IF m.err = "" /\ m.cstack # <<>>
                  THEN entered \cup
                       {i \in DOMAIN m.versions :
                            /\ m.versions[i].startPtr # nullptr
                            /\ m.versions[i].endPtr # nullptr
                            /\ m.versions[i].startPtr = m.instrPtr}
                  ELSE entered

\* The calls the embedding program makes.
TopCall(f, a) == [fun |-> f, args |-> a]
\* The arguments the factorial and the counted loop are run with.
FactArgs == 0 .. 4
LoopArgs == 0 .. 3
\* One value of every tag that is neither a function object nor a host
\* function.
NonCallables ==
    {int32(3), Float32Val(2), ValueTRUE, StrVal(1), ArrVal(1),
     RawPtr(nullptr), ValueUNDEF}
\* The conditions IF_TRUE is run on: the two booleans, integers whose word
\* is that of a boolean, and values of other tags.
IfConds ==
    {ValueTRUE, ValueFALSE, int32(1), int32(0), Float32Val(1), StrVal(sX),
     ObjVal(funId.fRet), ValueUNDEF}
\* The image files, and the calls the embedding program makes once it has
\* loaded one of them.
Images == 1 .. 17
ImageCalls(g) ==
    CASE g = 1 ->
        {TopCall(funId.fRet, <<>>),
         TopCall(funId.fLoop, <<int32(2)>>), TopCall(funId.fFact, <<int32(3)>>),
         TopCall(funId.fInf, <<>>), TopCall(funId.fUnbal, <<>>),
         TopCall(funId.fHost, <<ObjVal(funId.fUnbal)>>)}
      [] g = 13 ->
        {TopCall(funId.fRet, <<>>), TopCall(funId.fLoop, <<int32(0)>>),
         TopCall(funId.fFact, <<int32(1)>>),
         TopCall(funId.fIf, <<ValueTRUE>>), TopCall(funId.fIf, <<ValueFALSE>>),
         TopCall(funId.fIf, <<int32(5)>>)}
      [] g = 4 ->
        {TopCall(funId.fRet, <<>>),
         TopCall(funId.fHost, <<ObjVal(funId.fRet)>>), TopCall(funId.fHost, <<ObjVal(funId.fUnbal)>>),
         TopCall(funId.fHost, <<ObjVal(funId.fUnknown)>>),
         TopCall(funId.fUnbal, <<>>), TopCall(funId.fUnknown, <<>>)}
      [] g = 15 ->
        {TopCall(funId.fRet, <<>>), TopCall(funId.fBadArgs, <<>>),
         TopCall(funId.fBadCallee, <<>>), TopCall(funId.fEmpty, <<>>),
         TopCall(funId.fUnknown, <<>>), TopCall(funId.fFill, <<>>)}
      [] g = 2 ->
        {TopCall(funId.fRet, <<>>), TopCall(funId.fBadArgs, <<>>),
         TopCall(funId.fSub, <<int32(7), int32(2)>>), TopCall(funId.fCallSub, <<>>),
         TopCall(funId.fAgain, <<ValueTRUE>>)}
      [] g = 16 ->
        {TopCall(funId.fRet, <<>>), TopCall(funId.fHostAll, <<>>),
         TopCall(funId.fRe, <<int32(2)>>),
         TopCall(funId.fUnder2, <<>>), TopCall(funId.fUnder5, <<>>)}
      [] g = 5 ->
        {TopCall(funId.fRet, <<>>), TopCall(funId.fBadCallee5, <<>>)}
            \cup {TopCall(funId.fCallArg, <<v>>) : v \in NonCallables}
      [] g = 3 ->
        {TopCall(funId.fRet, <<>>), TopCall(funId.fEmpty, <<>>), TopCall(funId.fUnknown, <<>>),
         TopCall(funId.fJmpEmpty, <<>>), TopCall(funId.fBrEmpty, <<ValueTRUE>>),
         TopCall(funId.fCallEmpty, <<>>), TopCall(funId.fRetEmpty, <<>>)}
      [] g = 6 ->
        {TopCall(funId.fRet, <<>>),
         TopCall(funId.fChar, <<StrVal(sABA), int32(0)>>),
         TopCall(funId.fChar, <<StrVal(sABA), int32(1)>>),
         TopCall(funId.fChar, <<StrVal(sABA), int32(3)>>),
         TopCall(funId.fChar, <<StrVal(sABA), int32(-1)>>),
         TopCall(funId.fChar, <<StrVal(sZ), int32(0)>>),
         TopCall(funId.fChar, <<StrVal(sZ), int32(1)>>)}
      [] g = 14 ->
        {TopCall(funId.fChar, <<StrVal(sABA), int32(0)>>),
         TopCall(funId.fTwoChars, <<StrVal(sABA), int32(0), int32(2)>>),
         TopCall(funId.fTwoChars, <<StrVal(sABA), int32(1), int32(2)>>),
         TopCall(funId.fTwoChars, <<StrVal(sZ), int32(2), int32(0)>>),
         TopCall(funId.fTwoChars, <<StrVal(sZ), int32(3), int32(1)>>)}
      [] g = 7 ->
        {TopCall(funId.fCode, <<StrVal(sABA), int32(-1)>>),
         TopCall(funId.fCode, <<StrVal(sZ), int32(1)>>),
         TopCall(funId.fCode, <<StrVal(sABA), int32(3)>>),
         TopCall(funId.fGetElem, <<ArrVal(aTwo), int32(-1)>>),
         TopCall(funId.fGetElem, <<ArrVal(aTwo), int32(1)>>),
         TopCall(funId.fGetElem, <<ArrVal(aTwo), int32(2)>>),
         TopCall(funId.fSetElem, <<ArrVal(aTwo), int32(-1), int32(9)>>),
         TopCall(funId.fSetElem, <<ArrVal(aTwo), int32(0), int32(9)>>),
         TopCall(funId.fSetElem, <<ArrVal(aTwo), int32(2), int32(9)>>)}
      [] g = 8 ->
        {TopCall(funId.fGetField, <<ObjVal(oX), StrVal(sX)>>),
         TopCall(funId.fGetField, <<ObjVal(oX), StrVal(sY)>>),
         TopCall(funId.fSetGet, <<ObjVal(oX), StrVal(sX), int32(7)>>),
         TopCall(funId.fSetGet, <<ObjVal(oX), StrVal(sY), int32(8)>>),
         TopCall(funId.fSetGet, <<ObjVal(oX), StrVal(s1X), int32(9)>>)}
      [] g = 9 ->
        {TopCall(funId.fRet, <<>>), TopCall(funId.fBig, <<>>),
         TopCall(funId.fBigExact, <<>>), TopCall(funId.fTwice, <<>>)}
      [] g = 10 ->
        {TopCall(funId.fRet, <<>>), TopCall(funId.fManyLocals, <<>>),
         TopCall(funId.fCallMany, <<>>)}
      [] g = 17 -> {TopCall(funId.fIf, <<v>>) : v \in IfConds}
      [] g = 11 -> {TopCall(funId.fFact, <<int32(n)>>) : n \in FactArgs}
      [] g = 12 -> {TopCall(funId.fLoop, <<int32(n)>>) : n \in LoopArgs}
TopCalls == UNION {ImageCalls(g) : g \in Images}

\* initInterp(): an empty code heap and an empty stack.
Init ==
    /\ code = [a \in {} |-> OpCell("?")]
    /\ codeHeapAlloc = codeHeap
    /\ versions = <<>>
    /\ versionMap = [b \in {} |-> <<>>]
    /\ instrMap = [a \in {} |-> nullptr]
    /\ retAddrMap = [v \in {} |-> [excVer |-> nullptr]]
    /\ stack = [a \in StackAddrs |-> ValueDefault]
    /\ stackPtr = stackBase
    /\ framePtr = nullptr
    /\ instrPtr = nullptr
    /\ cstack = <<>>
    /\ status = "idle"
    /\ err = ""
    /\ result = ValueUNDEF
    /\ verBase \in {LowHeap, HighHeap}
    /\ ncalls = 0
    /\ shadow = <<>>
    /\ charStrings = [b \in Bytes |-> ValueDefault]
    /\ strHeap = <<>>
    /\ arrays = (aTwo :> <<int32(5), int32(6)>>)
    /\ objs = (oX :> <<[name |-> ImageStr[sX], val |-> int32(1)]>>)
    /\ icSlot = 0
    /\ icLog = <<>>
    /\ image \in Images
    /\ runs = <<>>
    /\ entered = {}

\* The embedding program calls callFun(fun, args); a caller that caught a
\* RunError may call again.
CallFunOf(c) ==
    /\ c \in ImageCalls(image)
    /\ status \in {"idle", "error"}
    /\ ncalls < MaxCalls
    /\ \E m0 \in {Machine} :
         \E m \in {callFun(m0, c.fun, c.args, FALSE, 0, nullptr)} : Commit(m)
    /\ ncalls' = ncalls + 1
    /\ runs' = Append(runs, [call |-> c, preCallSz |-> stackBase - stackPtr,
                             status0 |-> status, result0 |-> result])

CallFun == \E c \in TopCalls : CallFunOf(c)

\* execCode is about to dispatch opcode o.
Fetch(o) ==
    /\ status = "running"
    /\ cellAt(Machine).k = "op"
    /\ cellAt(Machine).op = o

\* One turn of the loop of execCode: readCode<Opcode>(), then the handler.
Step(handler(_, _)) ==
    /\ \E m0 \in {Machine} :
         \E m1 \in {readCode(m0, "op")} :
           \E m \in {handler(m1, m0.instrPtr)} : Commit(m)
    /\ ncalls' = ncalls
    /\ runs' = runs

ExecPush == Fetch("PUSH") /\ Step(LAMBDA m, at : execPush(m))
ExecPop == Fetch("POP") /\ Step(LAMBDA m, at : execPop(m))
ExecDup == Fetch("DUP") /\ Step(LAMBDA m, at : execDup(m))
ExecSwap == Fetch("SWAP") /\ Step(LAMBDA m, at : execSwap(m))
ExecSetLocal == Fetch("SET_LOCAL") /\ Step(LAMBDA m, at : execSetLocal(m))
ExecGetLocal == Fetch("GET_LOCAL") /\ Step(LAMBDA m, at : execGetLocal(m))
ExecSubI32 == Fetch("SUB_I32") /\ Step(LAMBDA m, at : execI32(m, "SUB_I32"))
ExecMulI32 == Fetch("MUL_I32") /\ Step(LAMBDA m, at : execI32(m, "MUL_I32"))
ExecLeI32 == Fetch("LE_I32") /\ Step(LAMBDA m, at : execI32(m, "LE_I32"))
ExecGtI32 == Fetch("GT_I32") /\ Step(LAMBDA m, at : execI32(m, "GT_I32"))
ExecJumpStub == Fetch("JUMP_STUB") /\ Step(execJumpStub)
ExecJump == Fetch("JUMP") /\ Step(LAMBDA m, at : execJump(m))
ExecIfTrue == Fetch("IF_TRUE") /\ Step(LAMBDA m, at : execIfTrue(m))
ExecCall == Fetch("CALL") /\ Step(execCall)
ExecRet == Fetch("RET") /\ Step(LAMBDA m, at : execRet(m))
ExecGetChar == Fetch("GET_CHAR") /\ Step(LAMBDA m, at : execGetChar(m))
ExecGetCharCode ==
    Fetch("GET_CHAR_CODE") /\ Step(LAMBDA m, at : execGetCharCode(m))
ExecSetElem == Fetch("SET_ELEM") /\ Step(LAMBDA m, at : execSetElem(m))
ExecGetElem == Fetch("GET_ELEM") /\ Step(LAMBDA m, at : execGetElem(m))
ExecSetField == Fetch("SET_FIELD") /\ Step(LAMBDA m, at : execSetField(m))
ExecGetField == Fetch("GET_FIELD") /\ Step(LAMBDA m, at : execGetField(m))

Next ==
    \/ CallFun
    \/ ExecPush
    \/ ExecPop
    \/ ExecDup
    \/ ExecSwap
    \/ ExecSetLocal
    \/ ExecGetLocal
    \/ ExecSubI32
    \/ ExecMulI32
    \/ ExecLeI32
    \/ ExecGtI32
    \/ ExecJumpStub
    \/ ExecJump
    \/ ExecIfTrue
    \/ ExecCall
    \/ ExecRet
    \/ ExecGetChar
    \/ ExecGetCharCode
    \/ ExecSetElem
    \/ ExecGetElem
    \/ ExecSetField
    \/ ExecGetField

Spec == Init /\ [][Next]_vars

\* The loop of execCode: once callFun entered it, it keeps executing
\* instructions until a RET leaves it or an error is raised.
ExecCode == status = "running" /\ Next
FairSpec == Init /\ [][Next]_vars /\ WF_vars(ExecCode)

\* --------------------------------------------------------- inline cache
MaxICCalls == 3

\* The field name of the site, and objects of differing layouts.
icFieldName == "x"
Slot(n, v) == [name |-> n, val |-> v]
ICObjs ==
    {<<>>,
     <<Slot("x", int32(1))>>,
     <<Slot("y", int32(2))>>,
     <<Slot("y", int32(3)), Slot("x", int32(4))>>,
     <<Slot("x", int32(5)), Slot("y", int32(6))>>,
     <<Slot("y", int32(7)), Slot("z", int32(8)), Slot("x", int32(9))>>}

\* Object::getField(name, val, slotIdx) returning the slot the hint names,
\* whatever field it holds.
getFieldHintedBlind(slots, name, slotIdx) ==
    IF slotIdx < Len(slots)
    THEN [found |-> TRUE, val |-> slots[slotIdx + 1].val, slotIdx |-> slotIdx]
    ELSE IF objHasField(slots, name)
    THEN [found |-> TRUE, val |-> objGetField(slots, name),
          slotIdx |-> slotOf(slots, name) - 1]
    ELSE [found |-> FALSE, val |-> ValueUNDEF, slotIdx |-> slotIdx]

\* Object::getField(name, val, slotIdx): the slot the hint names is probed
\* first; on a mismatch the field is looked up by name and the hint is set
\* to the slot found.
getFieldHinted(slots, name, slotIdx) ==
    IF slotIdx < Len(slots) /\ slots[slotIdx + 1].name = name
    THEN [found |-> TRUE, val |-> slots[slotIdx + 1].val, slotIdx |-> slotIdx]
    ELSE IF objHasField(slots, name)
    THEN [found |-> TRUE, val |-> objGetField(slots, name),
          slotIdx |-> slotOf(slots, name) - 1]
    ELSE [found |-> FALSE, val |-> ValueUNDEF, slotIdx |-> slotIdx]

\* ICache::getField(obj) at the site, for one object.
ICGetFieldOf(slots) ==
    /\ Len(icLog) < MaxICCalls
    /\ \E r \in {getFieldHinted(slots, icFieldName, icSlot)} :
         /\ icSlot' = r.slotIdx
         /\ icLog' = Append(icLog,
                [obj |-> slots,
                 res |-> IF r.found THEN [err |-> "", val |-> r.val]
                         ELSE [err |-> "MissingField", val |-> ValueUNDEF]])
    /\ UNCHANGED <<code, codeHeapAlloc, versions, versionMap, instrMap,
                   retAddrMap, stack, stackPtr, framePtr, instrPtr, cstack,
                   status, err, result, verBase, ncalls, shadow, charStrings,
                   strHeap, arrays, objs, image, runs, entered>>

ICGetField == \E slots \in ICObjs : ICGetFieldOf(slots)

NextIC == ICGetField

SpecIC == Init /\ [][NextIC]_vars


\* ------------------------------------------------------------- properties
stackSize == stackBase - stackPtr
\* The innermost callFun activation.
Act == Head(cstack)
\* Where that activation saved instrPtr.
ActSavedIp == stackBase - Act.preCallSz - 1
\* In-buffer: an address of the code heap.
InBuffer(p) == codeHeap <= p /\ p < codeHeapLimit

\* RET is about to pop a null return version.
AtTopRet ==
    /\ Fetch("RET")
    /\ cstack # <<>>
    /\ (stackPtr + 3) \in StackAddrs
    /\ stack[stackPtr + 1].w = nullptr

\* RET is about to run with exactly the return value above the three words
\* the innermost callFun saved.
AtExactTopRet ==
    /\ AtTopRet
    /\ stackPtr = ActSavedIp - Object(Act.fun).num_locals - 4
    /\ stack[stackPtr + 1] = RawPtr(nullptr)
    /\ stack[stackPtr + 2] = RawPtr(Act.fp0)
    /\ stack[stackPtr + 3] = RawPtr(ActSavedIp)

\* What the caller of the innermost callFun sees when it returns: the
\* embedding program directly; a host function through the rest of hostCall,
\* which drops the numArgs operands, pushes the value and jumps to the
\* return version.
CallFunReturned ==
    IF Act.host
    THEN err' = "" =>
           /\ cstack' = Tail(cstack)
           /\ stack'[stackPtr'] = stack[stackPtr]
           /\ stackBase - stackPtr' = Act.preCallSz - Act.numArgs + 1
           /\ framePtr' = Act.fp0
    ELSE /\ err' = ""
         /\ status' = "idle"
         /\ result' = stack[stackPtr]
         /\ stackBase - stackPtr' = Act.preCallSz
         /\ instrPtr' = Act.ip0
         /\ framePtr' = Act.fp0

\* The stack size after RET restored stackPtr and callFun popped the saved
\* instrPtr differs from the size before the call.
SizeDiffersAfterPop ==
    /\ AtTopRet
    /\ stack[stackPtr + 3].w \in StackAddrs
    /\ stackBase - (stack[stackPtr + 3].w + 1) # Act.preCallSz

\* C1: a callFun whose run reaches a top-level RET with exactly the return
\* value above the three saved-context words returns that value with the
\* stack size, instrPtr and framePtr it was called with; StackImbalance is
\* raised exactly when the stack size after popping the saved instrPtr
\* differs from the size before the call.
C1_CallFunReturns ==
    [][/\ AtExactTopRet => CallFunReturned
       /\ (err' = "StackImbalance") <=> SizeDiffersAfterPop]_vars

\* Both cases of C1 have happened: a call returned 3! = 6 to the embedding
\* program, and a later one ended in StackImbalance.
C1_Witness ==
    /\ status = "error"
    /\ err = "StackImbalance"
    /\ result = int32(6)

\* A RET that returns to a CALL (not to callFun) is about to run.
AtCallRet ==
    /\ Fetch("RET")
    /\ shadow # <<>>
    /\ Head(shadow).kind = "call"

\* C2 as stated: the stack size before a CALL equals the size when control
\* reaches the return version after the callee's RET, whatever num_args.
C2_SameSizeAfterReturn ==
    [][(AtCallRet /\ err' = "") =>
         stackBase - stackPtr' = Head(shadow).sz]_vars

\* C2: CALL ... RET replaces the callee and its num_args arguments by the
\* return value: the size at the return version is the size before the CALL
\* minus num_args.
C2_NetEffectOfCall ==
    [][(AtCallRet /\ err' = "") =>
         stackBase - stackPtr' = Head(shadow).sz - Head(shadow).nargs]_vars

\* Control is at the first instruction of the return version of the CALL in
\* funId.fCallSub (num_args = 2), with 5 - 3 on top.
C2_Witness ==
    /\ status = "running"
    /\ \E i \in DOMAIN versions :
         /\ versions[i].block = blockId.bCallSubC
         /\ versions[i].startPtr # nullptr
         /\ instrPtr = versions[i].startPtr
    /\ stack[stackPtr] = int32(2)

\* C3 as stated: at every instruction boundary inside execCode,
\* stackLimit < stackPtr <= stackBase and stackPtr <= framePtr + 1.
C3_StackPointerBounds ==
    status = "running" =>
        /\ stackLimit < stackPtr
        /\ stackPtr <= stackBase
        /\ stackPtr <= framePtr + 1


\* The registry holds exactly one version per block, and getBlockVersion
\* answers a request for a registered block with that version, creating
\* nothing.
RegistryOK ==
    /\ \A b \in DOMAIN versionMap :
         /\ Len(versionMap[b]) = 1
         /\ IsVer(Machine, versionMap[b][1])
         /\ Ver(Machine, versionMap[b][1]).block = b
         /\ getBlockVersion(Machine, Ver(Machine, versionMap[b][1]).fun, b)
              = [m |-> Machine, ver |-> versionMap[b][1]]
    /\ \A i \in DOMAIN versions :
         /\ versions[i].block \in DOMAIN versionMap
         /\ versionMap[versions[i].block] = <<verBase + i>>

\* C4: after any sequence of getBlockVersion calls every block of the
\* registry maps to exactly one BlockVersion, every request for the block
\* returns that same version, and a second version is never created.
C4_OneVersionPerBlock ==
    [][/\ RegistryOK'
       /\ \A b \in DOMAIN versionMap :
            /\ b \in DOMAIN versionMap'
            /\ versionMap'[b] = versionMap[b]]_vars

\* After two calls the header of the loop has been requested by the compile
\* of the entry block (twice) and by the compile of the loop body, and the
\* entry block twice by callFun.
C4_Witness ==
    /\ ncalls = 2
    /\ status = "idle"
    /\ blockId.bLoopH \in DOMAIN versionMap
    /\ \E i \in DOMAIN versions :
         versions[i].block = blockId.bLoopB /\ versions[i].endPtr # nullptr
    /\ \E i \in DOMAIN versions :
         versions[i].block = blockId.bLoopE /\ versions[i].ncompiled = 2

\* C5 as stated: outside a running compile every version with a non-null
\* startPtr has codeHeap <= startPtr < endPtr <= codeHeapLimit, also a
\* version whose compile ended with an error.
C5_ExtentsInBuffer ==
    status # "dead" =>
        \A i \in DOMAIN versions :
            versions[i].startPtr # nullptr =>
                /\ codeHeap <= versions[i].startPtr
                /\ versions[i].startPtr < versions[i].endPtr
                /\ versions[i].endPtr <= codeHeapLimit

\* C6 as stated: compile is never entered for a version whose startPtr is
\* non-null, and no version is compiled more than once.
C6_CompiledAtMostOnce ==
    \A i \in DOMAIN versions :
        /\ ~versions[i].reentered
        /\ versions[i].ncompiled <= 1

\* A change of one cell that branch patching makes.
IsPatch(old, new) ==
    \/ old = OpCell("JUMP_STUB") /\ new = OpCell("JUMP")
    \/ /\ old.k = "ptr" /\ new.k = "ptr"
       /\ ~InBuffer(old.n) /\ InBuffer(new.n)

\* Parts of C7.
StartPtrStaysSet ==
    \A i \in DOMAIN versions :
        versions[i].startPtr # nullptr =>
            i \in DOMAIN versions' /\ versions'[i].startPtr # nullptr
ExtentsStay ==
    \A i \in DOMAIN versions :
        versions[i].startPtr # nullptr =>
            /\ i \in DOMAIN versions'
            /\ versions'[i].startPtr = versions[i].startPtr
            /\ versions'[i].endPtr = versions[i].endPtr
BytesChangeByPatching ==
    \A a \in DOMAIN code :
        /\ a \in DOMAIN code'
        /\ code'[a] # code[a] => IsPatch(code[a], code'[a])

\* C7 as stated: a non-null startPtr never becomes null again, the extent
\* of a compiled version never changes, emitted bytes change only by branch
\* patching, and codeHeapAlloc never decreases.
C7_CompiledExtentsFixed ==
    [][/\ StartPtrStaysSet
       /\ ExtentsStay
       /\ BytesChangeByPatching
       /\ codeHeapAlloc' >= codeHeapAlloc]_vars


\* The start of a compiled extent: a version compiled to its end starts at p.
IsExtentStart(p) ==
    \E i \in DOMAIN versions :
        /\ versions[i].startPtr = p
        /\ versions[i].endPtr # nullptr
        /\ versions[i].startPtr < versions[i].endPtr

\* The target word of the JUMP_STUB or JUMP at instrPtr.
JumpWordAt == instrPtr + SizeOf("op")

\* The JUMP_STUB handler ran to its end: target compiled, compiled now only
\* if it was not before, site rewritten, control at the target.
StubPatched ==
    LET v == code[JumpWordAt].n
    IN  /\ IsVer(Machine', v)
        /\ Ver(Machine', v).startPtr # nullptr
        /\ IsVer(Machine, v) /\ Ver(Machine, v).startPtr # nullptr
             => versions' = versions
        /\ code'[instrPtr] = OpCell("JUMP")
        /\ code'[JumpWordAt] = PtrCell(Ver(Machine', v).startPtr)
        /\ instrPtr' = Ver(Machine', v).startPtr

\* C8 as stated: JUMP_STUB compiles the target if needed, rewrites the site
\* to JUMP with the target's startPtr and continues there; the site never
\* reverts to JUMP_STUB; every JUMP executed has an immediate inside
\* [codeHeap, codeHeapLimit) that is the start of a compiled extent.
C8_StubBecomesJump ==
    [][/\ (Fetch("JUMP_STUB") /\ err' = "") => StubPatched
       /\ \A a \in DOMAIN code :
            code[a] = OpCell("JUMP") =>
                a \in DOMAIN code' /\ code'[a] = OpCell("JUMP")
       /\ Fetch("JUMP") =>
            /\ InBuffer(code[JumpWordAt].n)
            /\ IsExtentStart(code[JumpWordAt].n)]_vars

\* The two target words of the IF_TRUE at instrPtr, and the one the value
\* on top of the stack selects.
ThenAt == instrPtr + SizeOf("op")
ElseAt == ThenAt + SizeOf("ptr")
TakenAt == IF stack[stackPtr] = ValueTRUE THEN ThenAt ELSE ElseAt

\* The side taken was already patched: the handler only jumps.
TakenPatchedBefore ==
    /\ code' = code
    /\ versions' = versions
    /\ codeHeapAlloc' = codeHeapAlloc
    /\ instrPtr' = code[TakenAt].n

\* The side taken held a version: it is compiled if it was not, its word
\* becomes the version's startPtr, and control continues there.
TakenPatchedNow ==
    LET v == code[TakenAt].n
    IN  /\ IsVer(Machine', v)
        /\ InBuffer(Ver(Machine', v).startPtr)
        /\ IsVer(Machine, v) /\ Ver(Machine, v).startPtr # nullptr
             => versions' = versions /\ codeHeapAlloc' = codeHeapAlloc
        /\ code'[TakenAt] = PtrCell(Ver(Machine', v).startPtr)
        /\ instrPtr' = Ver(Machine', v).startPtr

\* C9: IF_TRUE changes no emitted cell but the target word of the side
\* taken (the other word and the opcode stay); that word, if outside the
\* code heap, becomes the startPtr of its version, compiled if needed; a
\* patched word never changes again, so once both sides were taken both
\* words are in-buffer, and an execution with both words in-buffer compiles
\* nothing.
C9_BranchPatching ==
    [][/\ (Fetch("IF_TRUE") /\ stackPtr \in StackAddrs) =>
            /\ \A a \in DOMAIN code \ {TakenAt} :
                 a \in DOMAIN code' /\ code'[a] = code[a]
            /\ code'[instrPtr] = OpCell("IF_TRUE")
            /\ err' = "" =>
                 IF InBuffer(code[TakenAt].n) THEN TakenPatchedBefore
                 ELSE TakenPatchedNow
       /\ (/\ Fetch("IF_TRUE")
           /\ InBuffer(code[ThenAt].n)
           /\ InBuffer(code[ElseAt].n)) =>
            /\ code' = code
            /\ versions' = versions
            /\ codeHeapAlloc' = codeHeapAlloc
       /\ \A a \in DOMAIN code :
            (code[a].k = "ptr" /\ InBuffer(code[a].n)) =>
                a \in DOMAIN code' /\ code'[a] = code[a]]_vars

\* An IF_TRUE whose two sides were both taken before is about to run again.
C9_Witness ==
    /\ Fetch("IF_TRUE")
    /\ InBuffer(code[ThenAt].n)
    /\ InBuffer(code[ElseAt].n)

\* The frame of a function with numLocals locals entered with the
\* arguments args (first argument first): framePtr at local 0, the
\* arguments in the first locals, numLocals slots, and directly below them
\* the three saved words prevSp, prevFp, retVer, the last on top.
FrameLaidOut(numLocals, args, prevSp, prevFp, retVer) ==
    /\ \A i \in 0 .. (Len(args) - 1) : stack'[framePtr' - i] = args[i + 1]
    /\ stack'[framePtr' - numLocals] = RawPtr(prevSp)
    /\ stack'[framePtr' - numLocals - 1] = RawPtr(prevFp)
    /\ stack'[framePtr' - numLocals - 2] = RawPtr(retVer)
    /\ stackPtr' = framePtr' - numLocals - 2
    /\ \A i \in 0 .. (numLocals - 1) :
         (framePtr' - i) \notin ((framePtr' - numLocals - 2) .. (framePtr' - numLocals))

\* The operands of the CALL at instrPtr and the callee on top of the stack.
CallNumArgs == code[instrPtr + SizeOf("op")].n
CallRetVer == code[instrPtr + SizeOf("op") + SizeOf("u16")].n
CallArgs == [i \in 1 .. CallNumArgs |-> stack[stackPtr + CallNumArgs + 1 - i]]

\* CALL of a user function reached the callee.
UserCallFrame ==
    LET f == Object(stack[stackPtr].w)
    IN  /\ framePtr' = stackPtr + CallNumArgs
        /\ FrameLaidOut(f.num_locals, CallArgs, stackPtr + 1 + CallNumArgs,
                        framePtr, CallRetVer)
        /\ instrPtr' = Ver(Machine', versionMap'[f.entry][1]).startPtr

\* callFun reached execCode: the activation it pushed records fun and args.
CallFunFrame ==
    LET a == Head(cstack')
        f == Object(a.fun)
    IN  /\ stack' [framePtr' + 1] = RawPtr(a.ip0)
        /\ framePtr' = stackBase - a.preCallSz - 2
        /\ FrameLaidOut(f.num_locals, a.args, framePtr' + 1, a.fp0, nullptr)
        /\ instrPtr' = Ver(Machine', versionMap'[f.entry][1]).startPtr

\* C10: after CALL of a user function framePtr points at the first-pushed
\* argument, local i holds the i-th argument, the frame has num_locals
\* slots, the three saved words directly below hold the stack pointer from
\* before the arguments were pushed, the caller's framePtr and the return
\* version, no local aliases a saved word, and callFun builds the same
\* layout with args[i] in local i.
C10_FrameLayout ==
    [][/\ (/\ Fetch("CALL")
           /\ stackPtr \in StackAddrs
           /\ stack[stackPtr].tag = "OBJECT"
           /\ err' = "") => UserCallFrame
       /\ (Len(cstack') > Len(cstack) /\ err' = "") => CallFunFrame]_vars

\* funId.fSub was entered by the CALL of funId.fCallSub with 5 and 3: local 0 is 5,
\* local 1 is 3, and there is a third local.
C10_Witness ==
    /\ status = "running"
    /\ Len(shadow) = 2
    /\ Head(shadow).kind = "call"
    /\ Head(shadow).nargs = 2
    /\ stack[framePtr] = int32(5)
    /\ stack[framePtr - 1] = int32(3)
    /\ stackPtr = framePtr - 5

\* The callee on top of the stack at a CALL, when it is a function object.
CalleeFun == Object(stack[stackPtr].w)

\* A CALL of a user function with a wrong number of arguments, and with the
\* operands it announces present, is about to run.
AtBadArgCountCall ==
    /\ Fetch("CALL")
    /\ stackPtr \in StackAddrs
    /\ stack[stackPtr].tag = "OBJECT"
    /\ stackBase - stackPtr - 1 >= CallNumArgs
    /\ CallNumArgs # CalleeFun.num_params

\* No version that was uncompiled, or did not exist, is compiled afterwards.
NothingCompiled ==
    /\ codeHeapAlloc' = codeHeapAlloc
    /\ \A i \in DOMAIN versions' :
         IF i \in DOMAIN versions
         THEN versions'[i].startPtr = versions[i].startPtr
         ELSE versions'[i].startPtr = nullptr

\* C11 as stated: a CALL of a user function whose num_args differs from
\* num_params fails with ArgCount, and the count is verified before the
\* callee's entry version is compiled: the entry version stays uncompiled
\* and codeHeapAlloc, framePtr and the frame are unchanged.
C11_ArgCountBeforeCompile ==
    [][AtBadArgCountCall =>
         /\ err' = "ArgCount"
         /\ NothingCompiled
         /\ framePtr' = framePtr
         /\ stack' = stack]_vars

\* The four words RET pops, in the order it pops them.
RetVal == stack[stackPtr]
RetVer == stack[stackPtr + 1].w
RetPrevFp == stack[stackPtr + 2].w
RetPrevSp == stack[stackPtr + 3].w

\* RET with a return version: the value is pushed on the restored stack,
\* the version is compiled if it was not, and the loop goes on there.
RetContinues ==
    /\ framePtr' = RetPrevFp
    /\ stackPtr' = RetPrevSp - 1
    /\ stack'[stackPtr'] = RetVal
    /\ \A a \in StackAddrs \ {stackPtr'} : stack'[a] = stack[a]
    /\ cstack' = cstack
    /\ IsVer(Machine', RetVer)
    /\ Ver(Machine', RetVer).startPtr # nullptr
    /\ instrPtr' = Ver(Machine', RetVer).startPtr
    /\ (IsVer(Machine, RetVer) /\ Ver(Machine, RetVer).startPtr # nullptr) =>
         versions' = versions /\ codeHeapAlloc' = codeHeapAlloc

\* RET with a null return version: the innermost run of the loop ends and
\* yields the value without pushing it.  callFun then pops the saved
\* instrPtr, and a host caller drops its operands and pushes the value as
\* the result of the host call.
RetExits ==
    /\ cstack' = Tail(cstack)
    /\ framePtr' = RetPrevFp
    /\ IF Act.host
       THEN /\ stackPtr' = RetPrevSp + 1 + Act.numArgs - 1
            /\ stack'[stackPtr'] = RetVal
            /\ \A a \in StackAddrs \ {stackPtr'} : stack'[a] = stack[a]
       ELSE /\ stackPtr' = RetPrevSp + 1
            /\ stack' = stack
            /\ result' = RetVal
            /\ status' = "idle"

\* C12: RET pops the return value, the return version, the saved fp and the
\* saved sp in this order and restores framePtr and stackPtr from the last
\* two; with a null return version the loop exits yielding the value
\* without pushing it; otherwise the value is pushed on the restored stack,
\* the return version is compiled if its startPtr is null, and execution
\* continues at its startPtr.
C12_RetOrder ==
    [][(Fetch("RET") /\ (stackPtr + 3) \in StackAddrs /\ err' = "") =>
         IF RetVer = nullptr THEN RetExits ELSE RetContinues]_vars

\* funId.fFact(1) returned 1 to the CALL in funId.fFact(2): control is at the return
\* version, the value on top, local 0 of the caller is 2.
C12_Witness ==
    /\ status = "running"
    /\ \E i \in DOMAIN versions :
         /\ versions[i].block = blockId.bFactC
         /\ instrPtr = versions[i].startPtr
    /\ stack[stackPtr] = int32(1)
    /\ stack[stackPtr + 1] = int32(2)
    /\ stack[framePtr] = int32(2)

\* A CALL of a host function that returns at once, with the arity of the
\* function, is about to run.
AtHostCall ==
    /\ Fetch("CALL")
    /\ stackPtr \in StackAddrs
    /\ stack[stackPtr].tag = "HOSTFN"
    /\ stack[stackPtr].w \in DOMAIN HostArity
    /\ CallNumArgs \in 0 .. 3
    /\ CallNumArgs = HostArity[stack[stackPtr].w]

\* C13: a CALL of a host function with num_args in 0..3 passes the
\* operands in push order, first-pushed first; afterwards the callee and
\* the num_args operands are gone and the returned value is on top (the net
\* effect of a completed user CALL ... RET), framePtr is unchanged, and
\* execution continues at the return version's startPtr, compiled first if
\* needed.
C13_HostCall ==
    [][(AtHostCall /\ err' = "") =>
         /\ stackPtr' = stackPtr + CallNumArgs
         /\ stack'[stackPtr'] = HostResult(stack[stackPtr].w, CallArgs)
         /\ \A a \in StackAddrs \ {stackPtr'} : stack'[a] = stack[a]
         /\ framePtr' = framePtr
         /\ cstack' = cstack
         /\ IsVer(Machine', CallRetVer)
         /\ Ver(Machine', CallRetVer).startPtr # nullptr
         /\ instrPtr' = Ver(Machine', CallRetVer).startPtr
         /\ (Ver(Machine, CallRetVer).startPtr # nullptr) =>
              versions' = versions /\ codeHeapAlloc' = codeHeapAlloc]_vars

\* hPack(42 - 2, 7, 3) returned 4073 after hConst, hId and hSub returned:
\* calls with 0, 1, 2 and 3 operands were made, and only the value is left
\* above the frame.
C13_Witness ==
    /\ status = "running"
    /\ \E i \in DOMAIN versions :
         /\ versions[i].block = blockId.bHostAllX
         /\ instrPtr = versions[i].startPtr
    /\ stack[stackPtr] = int32(4073)
    /\ stackPtr = framePtr - 3

\* The activations of cstack that are still on the native stack after the
\* step, by their index in cstack.
Persisting ==
    {k \in 1 .. Len(cstack) : k > Len(cstack) - Len(cstack')}

\* No step writes a slot that was in use when a persisting activation was
\* entered: the frames outside a running callFun are not touched.
OuterFramesKept ==
    \A k \in Persisting :
        \A a \in StackAddrs :
            a >= stackBase - cstack[k].preCallSz => stack'[a] = stack[a]

\* A nested callFun returns to the host function that made it: only the
\* innermost run of the loop ends; stackPtr and framePtr are those of the
\* entry of the host function, after which hostCall drops the numArgs
\* operands, pushes the value, and the outer loop continues at the return
\* version of the outer CALL.
NestedReturn ==
    /\ cstack' = Tail(cstack)
    /\ status' = "running"
    /\ framePtr' = Act.fp0
    /\ stackPtr' = (stackBase - Act.preCallSz) + Act.numArgs - 1
    /\ stack'[stackPtr'] = RetVal
    /\ \A a \in StackAddrs :
         a >= stackBase - Act.preCallSz /\ a # stackPtr' => stack'[a] = stack[a]
    /\ instrPtr' = Ver(Machine', Act.retVer).startPtr

\* C14: when a host function invoked by CALL calls callFun and the nested
\* call returns normally, stackPtr, framePtr and every slot of the outer
\* frames are as they were when the host function was entered, the nested
\* top-level RET ends only the nested run, and the outer loop continues at
\* the return version of the outer CALL; at any nesting depth, also when
\* the nested call targets the function that is executing.
C14_NestedCallFun ==
    [][/\ err' = "" => OuterFramesKept
       /\ (AtTopRet /\ Act.host /\ err' = "") => NestedReturn]_vars

\* funId.fRe(2) called funId.fRe(1) which called funId.fRe(0), each through hApply from
\* inside funId.fRe, and the two nested calls have returned 5: the outer loop is
\* at the return version of its CALL with local 0 still 2.
C14_Witness ==
    /\ status = "running"
    /\ Len(cstack) = 1
    /\ \E i \in DOMAIN versions :
         /\ versions[i].block = blockId.bReC
         /\ instrPtr = versions[i].startPtr
    /\ stack[stackPtr] = int32(5)
    /\ stack[framePtr] = int32(2)

\* C15 as stated: a RunError raised during compilation or interpretation
\* inside callFun reaches the caller of callFun with the prior state of the
\* VM restored: stackPtr, framePtr and instrPtr are those from before the
\* call, so that a following callFun starts from the same stack size.
C15_ErrorRestoresState ==
    [][err' \in RunErrors =>
         /\ status' = "error"
         /\ cstack' = <<>>
         /\ IF cstack = <<>>
            THEN /\ stackPtr' = stackPtr
                 /\ framePtr' = framePtr
                 /\ instrPtr' = instrPtr
            ELSE /\ stackBase - stackPtr' = cstack[Len(cstack)].preCallSz
                 /\ framePtr' = cstack[Len(cstack)].fp0
                 /\ instrPtr' = cstack[Len(cstack)].ip0]_vars

\* The function whose code holds the CALL at instrPtr, by the instruction
\* map, and the number of operands its frame holds above the saved words
\* once the callee is popped.
CallerFun == Object(Ver(Machine, instrMap[instrPtr]).fun)
FrameOperands == (framePtr - CallerFun.num_locals - 2) - (stackPtr + 1)

\* A CALL is about to run in a frame that holds fewer operands than the
\* CALL announces.
AtUnderflowCall ==
    /\ Fetch("CALL")
    /\ stackPtr \in StackAddrs
    /\ instrPtr \in DOMAIN instrMap
    /\ FrameOperands < CallNumArgs

\* C16 as stated: CALL fails with StackUnderflow whenever fewer than
\* num_args operands are present after the callee is popped, also when the
\* whole value stack holds at least num_args slots; no frame is built and
\* no host function is invoked.
C16_StackUnderflow ==
    [][AtUnderflowCall =>
         /\ err' = "StackUnderflow"
         /\ framePtr' = framePtr
         /\ stack' = stack
         /\ codeHeapAlloc' = codeHeapAlloc]_vars

\* A CALL whose callee is neither a function object nor a host function is
\* about to run.
AtInvalidCalleeCall ==
    /\ Fetch("CALL")
    /\ stackPtr \in StackAddrs
    /\ stack[stackPtr].tag \notin {"OBJECT", "HOSTFN"}

\* The CALL fails with InvalidCallee and changes nothing but the stack
\* pointer.
InvalidCalleeRaised ==
    /\ err' = "InvalidCallee"
    /\ framePtr' = framePtr
    /\ instrMap' = instrMap
    /\ versions' = versions
    /\ versionMap' = versionMap
    /\ code' = code
    /\ codeHeapAlloc' = codeHeapAlloc

\* C17 as stated: a CALL whose popped callee is neither an Object nor a
\* HostFn fails with InvalidCallee, for every other tag, without changing
\* framePtr, instrMap, the version registry or the code buffer.
C17_InvalidCalleeAlways ==
    [][AtInvalidCalleeCall => InvalidCalleeRaised]_vars

\* C17: the same, for a CALL that finds at least num_args slots on the
\* stack once the callee is popped; with fewer the CALL fails with
\* StackUnderflow, which is tested first.
C17_InvalidCallee ==
    [][AtInvalidCalleeCall =>
         IF stackBase - stackPtr - 1 >= CallNumArgs
         THEN InvalidCalleeRaised
         ELSE err' = "StackUnderflow"]_vars

\* A CALL has popped an undef as its callee and failed with InvalidCallee,
\* in the second call the embedding program made.
C17_Witness ==
    /\ status = "error"
    /\ err = "InvalidCallee"
    /\ ncalls = 2
    /\ stack[stackPtr - 1] = ValueUNDEF

\* The block object has an instrs array and the array is empty.
IsEmptyBlock(b) == hasField(Object(b), "instrs") /\ Object(b).instrs = <<>>

\* p is a version of an empty block.
IsEmptyVer(p) == IsVer(Machine, p) /\ IsEmptyBlock(Ver(Machine, p).block)

\* The step about to run reaches a version of an empty block: by a jump, by
\* the taken side of a branch, by a call of a function whose entry block is
\* empty, or by a return to an empty return block.
StubReachesEmpty == Fetch("JUMP_STUB") /\ IsEmptyVer(code[JumpWordAt].n)
BranchReachesEmpty ==
    /\ Fetch("IF_TRUE")
    /\ stackPtr \in StackAddrs
    /\ stack[stackPtr].tag = "BOOL"
    /\ IsEmptyVer(code[TakenAt].n)
CallReachesEmpty ==
    /\ Fetch("CALL")
    /\ stackPtr \in StackAddrs
    /\ stack[stackPtr].tag = "OBJECT"
    /\ stackBase - stackPtr - 1 >= CallNumArgs
    /\ hasField(CalleeFun, "entry")
    /\ CallNumArgs = CalleeFun.num_params
    /\ IsEmptyBlock(CalleeFun.entry)
RetReachesEmpty ==
    /\ Fetch("RET")
    /\ (stackPtr + 3) \in StackAddrs
    /\ IsEmptyVer(RetVer)
CallFunReachesEmpty ==
    \E c \in TopCalls : IsEmptyBlock(Object(c.fun).entry) /\ CallFunOf(c)

\* No version of an empty block is marked compiled after the step.
EmptyStaysUncompiled ==
    \A i \in DOMAIN versions' :
        IsEmptyBlock(versions'[i].block) =>
            /\ versions'[i].startPtr = nullptr
            /\ versions'[i].ncompiled = 0

\* The step fails with EmptyBlock and writes no code.
FailsEmptyBlock ==
    /\ status' = "error"
    /\ err' = "EmptyBlock"
    /\ codeHeapAlloc' = codeHeapAlloc
    /\ code' = code

\* C18: compiling a block whose instrs array is empty fails with EmptyBlock
\* and leaves the version uncompiled (startPtr null) and codeHeapAlloc
\* unchanged, so every reach of that block, the first and every later one,
\* by jump, branch, call, return or callFun, fails with EmptyBlock.
C18_EmptyBlock ==
    [][/\ EmptyStaysUncompiled
       /\ (err' = "EmptyBlock" => codeHeapAlloc' = codeHeapAlloc)
       /\ (\/ StubReachesEmpty
           \/ BranchReachesEmpty
           \/ CallReachesEmpty
           \/ RetReachesEmpty
           \/ CallFunReachesEmpty) => FailsEmptyBlock]_vars

\* The same empty block was reached by two jump sites, one in each call of
\* the embedding program, and the second reach failed with EmptyBlock too.
C18_Witness ==
    /\ status = "error"
    /\ err = "EmptyBlock"
    /\ ncalls = 2
    /\ blockId.bJmpEmpty \in DOMAIN versionMap
    /\ Cardinality({a \in DOMAIN code :
          /\ code[a] = PtrCell(versionMap[blockId.bJmpEmpty][1])
          /\ (a - SizeOf("op")) \in DOMAIN code
          /\ code[a - SizeOf("op")] = OpCell("JUMP_STUB")}) = 2

\* The op strings compile() knows.
KnownOps ==
    {"push", "jump", "if_true", "call", "throw", "abort"}
        \cup DOMAIN IdxOpcodeOf \cup DOMAIN OpcodeOf

\* The block holds an instruction whose op string compile() does not know.
HasUnknownOp(b) ==
    /\ hasField(Object(b), "instrs")
    /\ \E k \in DOMAIN Object(b).instrs : Object(b).instrs[k].op \notin KnownOps

\* p is a version of such a block.
IsUnknownOpVer(p) == IsVer(Machine, p) /\ HasUnknownOp(Ver(Machine, p).block)

\* The jump about to run reaches a version of such a block.
StubReachesUnknownOp ==
    Fetch("JUMP_STUB") /\ IsUnknownOpVer(code[JumpWordAt].n)

\* No version of a block with an unknown op is marked compiled after the
\* step.
UnknownOpStaysUncompiled ==
    \A i \in DOMAIN versions' :
        HasUnknownOp(versions'[i].block) => versions'[i].startPtr = nullptr

\* C19 as stated: compiling a block that contains an instruction with an
\* unknown op string fails with UnknownOpcode, the version is not left
\* marked as compiled, and a later jump that reaches the same block fails
\* with UnknownOpcode again instead of executing the partially emitted code.
C19_UnknownOpcode ==
    [][/\ UnknownOpStaysUncompiled
       /\ StubReachesUnknownOp =>
            status' = "error" /\ err' = "UnknownOpcode"]_vars

\* A GET_CHAR that finds a string and an index inside it is about to run.
AtGetChar ==
    /\ Fetch("GET_CHAR")
    /\ (stackPtr + 1) \in StackAddrs
    /\ stack[stackPtr].tag = "INT32"
    /\ stack[stackPtr + 1].tag = "STRING"
    /\ ~IdxOutOfBounds(stack[stackPtr].w,
                       Len(strData(Machine, stack[stackPtr + 1].w)))

\* The byte that GET_CHAR reads.
GetCharByte == strData(Machine, stack[stackPtr + 1].w)[stack[stackPtr].w + 1]

\* The bytes whose one-character strings the two get_char of funId.fTwoChars
\* produced, the later one first.
TwoCharsBytes ==
    LET a == Head(cstack).args
    IN  <<strData(Machine, a[1].w)[a[3].w + 1],
          strData(Machine, a[1].w)[a[2].w + 1]>>

\* Both results of the two get_char of funId.fTwoChars are on the stack.
AtTwoResults ==
    /\ Fetch("POP")
    /\ cstack # <<>>
    /\ Head(cstack).fun = funId.fTwoChars

\* An entry of the cache that was written is not written again.
MemoWrittenOnce ==
    \A b \in Bytes :
        charStrings[b] # ValueFALSE => charStrings'[b] = charStrings[b]

\* C20: for any sequence of get_char operations, two get_char results for
\* the same byte value are the identical Value: get_char pushes the entry
\* of the 256-entry cache for the byte it read, an entry is written at most
\* once and never replaced afterwards, for every byte value 0..255, and two
\* results for the same byte lying on the stack are the same reference.
C20_CharInterning ==
    [][/\ MemoWrittenOnce
       /\ AtGetChar =>
            /\ err' = ""
            /\ stack'[stackPtr'] = charStrings'[GetCharByte]
            /\ stack'[stackPtr'].tag = "STRING"
            /\ \A b \in Bytes \ {GetCharByte} : charStrings'[b] = charStrings[b]
       /\ (AtTwoResults /\ TwoCharsBytes[1] = TwoCharsBytes[2]) =>
            stack[stackPtr] = stack[stackPtr + 1]]_vars

\* In the second call of the embedding program the two get_char of
\* funId.fTwoChars read the byte 255 both, the first call had cached its string,
\* and both results are that string.
C20_Witness ==
    /\ AtTwoResults
    /\ ncalls = 2
    /\ TwoCharsBytes = <<255, 255>>
    /\ Len(strHeap) = 1
    /\ stack[stackPtr] = StrVal(strBase + 1)
    /\ stack[stackPtr + 1] = StrVal(strBase + 1)

\* What get_char_code pushes for the operands the GET_CHAR about to run
\* finds on the stack.
GetCharCode ==
    topVal(execGetCharCode([Machine EXCEPT !.instrPtr = @ + SizeOf("op")])).w

\* C21 as stated: for every string s and every index i inside it,
\* get_char(s, i) yields a one-byte string whose byte equals
\* get_char_code(s, i) mod 256, for every byte value 0..255 and whatever
\* earlier get_char calls have cached.
C21_CharOfCode ==
    [][AtGetChar =>
         /\ err' = ""
         /\ stack'[stackPtr'].tag = "STRING"
         /\ strData(Machine', stack'[stackPtr'].w) = <<GetCharCode % 256>>]_vars

\* An indexed access is about to run with operands of the right types: the
\* index is the int32 at depth d of the stack, the string or array lies
\* below it.
AtIndexed(op, d) ==
    /\ Fetch(op)
    /\ (stackPtr + d + 1) \in StackAddrs
    /\ stack[stackPtr + d].tag = "INT32"
    /\ IF op \in {"GET_CHAR", "GET_CHAR_CODE"}
       THEN stack[stackPtr + d + 1].tag = "STRING"
       ELSE /\ stack[stackPtr + d + 1].tag = "ARRAY"
            /\ stack[stackPtr + d + 1].w \in DOMAIN arrays

\* The length of the string or array the access indexes.
IndexedLen(op, d) ==
    IF op \in {"GET_CHAR", "GET_CHAR_CODE"}
    THEN Len(strData(Machine, stack[stackPtr + d + 1].w))
    ELSE Len(arrays[stack[stackPtr + d + 1].w])

\* The access fails with IndexOutOfBounds exactly for an index outside
\* [0, length); then no string or array changes and nothing is pushed: the
\* stack holds what it held, less the operands.
IndexChecked(op, d) ==
    AtIndexed(op, d) =>
        IF stack[stackPtr + d].w \in 0 .. (IndexedLen(op, d) - 1)
        THEN err' = ""
        ELSE /\ status' = "error"
             /\ err' = "IndexOutOfBounds"
             /\ arrays' = arrays
             /\ strHeap' = strHeap
             /\ charStrings' = charStrings
             /\ stack' = stack
             /\ stackPtr' = stackPtr + d + 2

\* C22: get_char, get_char_code, get_elem and set_elem fail with
\* IndexOutOfBounds for every int32 index outside [0, length), negative
\* indices included, and on that failure the string or array is unchanged
\* and nothing is pushed; for every index inside [0, length) they do not
\* fail.
C22_IndexOutOfBounds ==
    [][/\ IndexChecked("GET_CHAR", 0)
       /\ IndexChecked("GET_CHAR_CODE", 0)
       /\ IndexChecked("GET_ELEM", 0)
       /\ IndexChecked("SET_ELEM", 1)]_vars

\* A set_elem inside the array stored 9 at index 0 in the first call, and
\* an access in the second call failed with IndexOutOfBounds.
C22_Witness ==
    /\ status = "error"
    /\ err = "IndexOutOfBounds"
    /\ ncalls = 2
    /\ arrays[aTwo] = <<int32(9), int32(6)>>

\* A field access is about to run with operands of the right types: the
\* field name is the string at depth d of the stack, the object lies below
\* it.
AtField(op, d) ==
    /\ Fetch(op)
    /\ (stackPtr + d + 1) \in StackAddrs
    /\ stack[stackPtr + d].tag = "STRING"
    /\ stack[stackPtr + d + 1].tag = "OBJECT"
    /\ stack[stackPtr + d + 1].w \in DOMAIN objs

\* The name, the object and whether the object holds the name.
FieldName(d) == strData(Machine, stack[stackPtr + d].w)
FieldObj(d) == stack[stackPtr + d + 1].w
FieldPresent(d) == objHasField(objs[FieldObj(d)], FieldName(d))

\* get_field on an object that lacks the field fails with MissingField and
\* pushes nothing.
GetFieldMissing ==
    (AtField("GET_FIELD", 0) /\ ~FieldPresent(0)) =>
        /\ status' = "error"
        /\ err' = "MissingField"
        /\ stack' = stack
        /\ stackPtr' = stackPtr + 2
        /\ objs' = objs

\* set_field on an object that lacks the field fails with MissingField and
\* leaves the object unchanged.
SetFieldMissing ==
    (AtField("SET_FIELD", 1) /\ ~FieldPresent(1)) =>
        /\ status' = "error"
        /\ err' = "MissingField"
        /\ objs' = objs

\* C23 as stated: get_field on an object that lacks the named field fails
\* with MissingField and pushes nothing, and set_field on a target object
\* that lacks the named field fails with MissingField and leaves the object
\* unchanged.
C23_MissingField == [][GetFieldMissing /\ SetFieldMissing]_vars

\* set_field with a name that is no identifier fails and changes no object.
SetFieldInvalid ==
    (AtField("SET_FIELD", 1) /\ ~isValidIdent(FieldName(1))) =>
        /\ status' = "error"
        /\ err' = "InvalidFieldName"
        /\ objs' = objs

\* set_field with an identifier stores the value under the name and leaves
\* the other fields and objects as they were.
SetFieldValid ==
    (AtField("SET_FIELD", 1) /\ isValidIdent(FieldName(1))) =>
        /\ err' = ""
        /\ DOMAIN objs' = DOMAIN objs
        /\ objHasField(objs'[FieldObj(1)], FieldName(1))
        /\ objGetField(objs'[FieldObj(1)], FieldName(1)) = stack[stackPtr]
        /\ \A o \in DOMAIN objs : \A k \in DOMAIN objs[o] :
             (o # FieldObj(1) \/ objs[o][k].name # FieldName(1)) =>
                 /\ objHasField(objs'[o], objs[o][k].name)
                 /\ objGetField(objs'[o], objs[o][k].name) = objs[o][k].val

\* The get_field that follows the set_field of fSetGet, on the same object
\* and name, yields the value that was set.
GetAfterSet ==
    (AtField("GET_FIELD", 0) /\ cstack # <<>>
        /\ Head(cstack).fun = funId.fSetGet) =>
        /\ err' = ""
        /\ stack'[stackPtr'] = Head(cstack).args[3]

\* C24: set_field with a field name that fails the identifier validity
\* check fails with InvalidFieldName and leaves the target object's field
\* set unchanged; with a valid name, a following get_field of that name on
\* the same object yields the value that was set.
C24_InvalidFieldName ==
    [][SetFieldInvalid /\ SetFieldValid /\ GetAfterSet]_vars

\* The first call set the new field y to 8 and read it back; the second
\* call's set_field with the name "1x" failed and left the object as it was.
C24_Witness ==
    /\ status = "error"
    /\ err = "InvalidFieldName"
    /\ ncalls = 2
    /\ result = int32(8)
    /\ objs[oX] = <<[name |-> ImageStr[sX], val |-> int32(1)],
                    [name |-> ImageStr[sY], val |-> int32(8)]>>

\* What a plain name-keyed lookup of the site's field name yields.
PlainLookup(slots) ==
    IF objHasField(slots, icFieldName)
    THEN [err |-> "", val |-> objGetField(slots, icFieldName)]
    ELSE [err |-> "MissingField", val |-> ValueUNDEF]

\* C25: for any sequence of ICache.getField calls at one site over objects
\* with differing field layouts, each call returns exactly the value a
\* plain name-keyed lookup of the site's field name on that object returns,
\* whatever slot index the site remembers from earlier calls, and fails
\* with MissingField exactly when the object lacks the field.
C25_ICacheIsLookup ==
    \A k \in DOMAIN icLog : icLog[k].res = PlainLookup(icLog[k].obj)

\* The site remembered slot 2 from an object with x in its third slot, was
\* then asked about an object with x in its first slot and about one
\* without x, and answered 5 and MissingField.
C25_Witness ==
    /\ Len(icLog) = 3
    /\ icLog[1].res.val = int32(9)
    /\ icLog[2].res.val = int32(5)
    /\ icLog[3].res.err = "MissingField"
    /\ icSlot = 0

\* C26 as stated: the code buffer rejects writes past its limit: for every
\* writeCode of a value of size n no byte at or beyond codeHeapLimit is
\* written, also when codeHeapAlloc < codeHeapLimit < codeHeapAlloc + n.
C26_WritesWithinLimit ==
    /\ codeHeapAlloc <= codeHeapLimit
    /\ \A a \in DOMAIN code : a + SizeOf(code[a].k) <= codeHeapLimit

\* C27 as stated: value-stack exhaustion is reported before stackPtr moves
\* below stackLimit, for a push, for the prologue of CALL and for the
\* prologue of callFun.
C27_StackOverflowBeforeMove ==
    /\ stackLimit <= stackPtr
    /\ stackPtr <= stackBase

\* The k-th outermost call is over, and what its caller saw of it.
RunOver(k) == k < Len(runs) \/ status # "running"
RunStatus(k) == IF k < Len(runs) THEN runs[k + 1].status0 ELSE status
RunResult(k) == IF k < Len(runs) THEN runs[k + 1].result0 ELSE result
\* The k-th call repeats the call before it, which returned.
Repeats(k) ==
    /\ k \in 2 .. Len(runs)
    /\ runs[k].call = runs[k - 1].call
    /\ runs[k].status0 = "idle"

\* C28: calling the same function twice in a row with the same arguments
\* yields equal results both times: when the first call returned, the stack
\* size before the second call equals the size before the first, and the
\* second call, once over, has returned the value the first returned.
C28_RepeatedCallSameResult ==
    \A k \in 1 .. Len(runs) :
        Repeats(k) =>
            /\ runs[k].preCallSz = runs[k - 1].preCallSz
            /\ RunOver(k) =>
                 /\ RunStatus(k) = "idle"
                 /\ RunResult(k) = runs[k].result0

\* The last outermost call, and whether it is a call of fun.
LastRun == runs[Len(runs)]
RunOf(fun) == runs # <<>> /\ LastRun.call.fun = fun
RunArg == LastRun.call.args[1].w
RECURSIVE Factorial(_)
Factorial(n) == IF n <= 1 THEN 1 ELSE n * Factorial(n - 1)
\* The block version control is in, if any.
AtBlock(b) ==
    \E i \in DOMAIN versions :
        /\ versions[i].block = b
        /\ versions[i].startPtr # nullptr
        /\ instrPtr = versions[i].startPtr

\* A RET of a recursive activation of the factorial is about to run.
AtFactInnerRet ==
    /\ RunOf(funId.fFact)
    /\ Fetch("RET")
    /\ Len(shadow) > 1

\* C29: the recursive factorial called through callFun returns n! for every
\* n of the range: each activation sees its own argument as local 0, each
\* return value reaches the caller's continuation block, on top of the
\* caller's pending operand, and the run terminates with the stack size
\* the call started with.
C29_Factorial ==
    /\ [](RunOf(funId.fFact) /\ status = "running" =>
            stack[framePtr] = int32(RunArg - (Len(shadow) - 1)))
    /\ [][AtFactInnerRet =>
            /\ stack[stackPtr] = int32(Factorial(stack[framePtr].w))
            /\ AtBlock(blockId.bFactC)'
            /\ stack'[stackPtr'] = stack[stackPtr]
            /\ stack'[stackPtr' + 1] = int32(stack[framePtr].w + 1)
            /\ stack'[framePtr'] = int32(stack[framePtr].w + 1)]_vars
    /\ [](RunOf(funId.fFact) /\ status # "running" =>
            /\ status = "idle"
            /\ result = int32(Factorial(RunArg))
            /\ stackBase - stackPtr = LastRun.preCallSz)
    /\ (RunOf(funId.fFact) /\ status = "running") ~> (status = "idle")

\* fact(4) was called after an earlier call and returned 24.
C29_Witness ==
    /\ RunOf(funId.fFact)
    /\ RunArg = 4
    /\ Len(runs) = 2
    /\ status = "idle"
    /\ result = int32(24)

\* The loop-back jump of the counted loop (the jump that ends its body) is
\* about to run, as a stub or as a JUMP.
AtBackJump ==
    /\ RunOf(funId.fLoop)
    /\ Fetch("JUMP_STUB") \/ Fetch("JUMP")
    /\ \E i \in DOMAIN versions :
         /\ versions[i].block = blockId.bLoopB
         /\ versions[i].startPtr # nullptr
         /\ versions[i].startPtr <= instrPtr
         /\ instrPtr < versions[i].endPtr
\* The loop-back jump ran before: in an earlier call of the loop with
\* n >= 1, or in an earlier iteration of this call.
BackJumpTaken ==
    \/ \E k \in 1 .. (Len(runs) - 1) :
         /\ runs[k].call.fun = funId.fLoop
         /\ runs[k].call.args[1].w >= 1
    \/ stack[framePtr].w < RunArg - 1

\* Control is at the RET that ends the exit block of the loop.
AtExitRet ==
    \E i \in DOMAIN versions :
        /\ versions[i].block = blockId.bLoopX
        /\ versions[i].startPtr # nullptr
        /\ instrPtr = versions[i].endPtr - SizeOf("op")

\* C30: the counted loop run with n >= 0 eventually leaves execCode, which
\* it does only through the RET of its exit block, returning int32 0; the
\* loop-back jump is a stub the first
\* time it runs and a patched JUMP every later time, and both continue at
\* the loop header with the stack and the frame unchanged.
C30_CountedLoop ==
    /\ [](AtBackJump => (Fetch("JUMP_STUB") <=> ~BackJumpTaken))
    /\ [][AtBackJump =>
            /\ AtBlock(blockId.bLoopH)'
            /\ code'[instrPtr] = OpCell("JUMP")
            /\ code'[instrPtr + SizeOf("op")] = PtrCell(instrPtr')
            /\ stack' = stack
            /\ stackPtr' = stackPtr
            /\ framePtr' = framePtr
            /\ status' = "running"]_vars
    /\ [](RunOf(funId.fLoop) /\ status # "running" =>
            /\ status = "idle"
            /\ result = int32(0)
            /\ stackBase - stackPtr = LastRun.preCallSz)
    /\ [][(RunOf(funId.fLoop) /\ status = "running" /\ status' # "running") =>
            /\ Fetch("RET")
            /\ AtExitRet
            /\ status' = "idle"
            /\ result' = int32(0)]_vars
    /\ (RunOf(funId.fLoop) /\ status = "running") ~> (status = "idle")

\* The third iteration of the loop run with n = 3 is at the loop-back
\* jump, which is a patched JUMP.
C30_Witness ==
    /\ AtBackJump
    /\ RunArg = 3
    /\ stack[framePtr] = int32(0)
    /\ Fetch("JUMP")

\* The start of the code the target word at a stands for after the step:
\* the address itself once patched, the version's startPtr before.
DestOf(a) ==
    IF InBuffer(code[a].n) THEN code[a].n ELSE Ver(Machine', code[a].n).startPtr
\* IF_TRUE is about to run on a condition.
AtIfTrue == Fetch("IF_TRUE") /\ stackPtr \in StackAddrs
\* The IF_TRUE of fIf is about to run on the argument of the call.
AtIfOfArg ==
    /\ AtIfTrue
    /\ RunOf(funId.fIf)
    /\ stack[stackPtr] = LastRun.call.args[1]

\* C31: IF_TRUE pops exactly one value and continues at the then target if
\* and only if that value equals the boolean TRUE; every other value, FALSE
\* and non-booleans included, continues at the else target, and the
\* condition itself raises no error: in the function whose two sides
\* compile, no IF_TRUE fails.
C31_IfTrue ==
    [][/\ (AtIfTrue /\ err' = "") =>
            /\ stackPtr' = stackPtr + 1
            /\ stack' = stack
            /\ framePtr' = framePtr
            /\ instrPtr' = DestOf(IF stack[stackPtr] = ValueTRUE
                                  THEN ThenAt ELSE ElseAt)
       /\ AtIfOfArg =>
            /\ err' = ""
            /\ status' = "running"
            /\ AtBlock(blockId.bIfT)' <=> (stack[stackPtr] = ValueTRUE)
            /\ AtBlock(blockId.bIfF)' <=> (stack[stackPtr] # ValueTRUE)]_vars

\* IF_TRUE ran on the integer 1, whose word is the word of TRUE, and control
\* is at the else block.
C31_Witness ==
    /\ RunOf(funId.fIf)
    /\ LastRun.call.args[1] = int32(1)
    /\ status = "running"
    /\ AtBlock(blockId.bIfF)
    /\ stackBase - stackPtr = LastRun.preCallSz + 5

\* C32 as stated: compilation is lazy: startPtr becomes non-null only when
\* control is about to execute the version, so that in every reachable
\* state each compiled version has been executed or is the next block to
\* execute, also when a CALL fails before entering the callee.
C32_LazyCompilation ==
    \A i \in DOMAIN versions :
        versions[i].startPtr # nullptr => i \in entered

====
